---- MODULE Spec2Model ----
(***************************************************************************)
(* State-machine model of the storefront: the checkout (ShoppingCart: cart  *)
(* line items, coupon, shipping/payment selection, the details form, the   *)
(* step machine, the asynchronous order placement, localStorage), the      *)
(* product catalog, the user profile, the authentication flow and the page *)
(* that hosts them.                                                        *)
(*                                                                         *)
(* Representation.                                                         *)
(*  - Text is a sequence of one-character strings, so that trim,           *)
(*    toUpperCase and the e-mail pattern are computed, not assumed.        *)
(*  - Money is an exact decimal, held as an integer number of 1/10000 of   *)
(*    a currency unit (one cent = 100).  Percent discounts of cent prices  *)
(*    are exact in this unit; toFixed(2) is half-up rounding to cents.     *)
(*  - null is the record Null (appliedCoupon) or the empty sequence.       *)
(*  - Rendering (markup, icons, formatting of amounts) is not modelled;    *)
(*    a handler is enabled exactly when the element it is attached to is   *)
(*    rendered and not disabled.                                           *)
(***************************************************************************)
EXTENDS Integers, Sequences, FiniteSets, TLC

\* ------------------------------------------------------------------------
\* Bounds of the model
\* ------------------------------------------------------------------------
\* The numbers typed into a quantity field range from -MaxNegQty to MaxReqQty.
MaxNegQty == 1
MaxReqQty == 4

\* ------------------------------------------------------------------------
\* Text helpers
\* ------------------------------------------------------------------------
LowerCase == <<"a","b","c","d","e","f","g","h","i","j","k","l","m",
               "n","o","p","q","r","s","t","u","v","w","x","y","z">>
UpperCase == <<"A","B","C","D","E","F","G","H","I","J","K","L","M",
               "N","O","P","Q","R","S","T","U","V","W","X","Y","Z">>

IsSpace(c) == c \in {" ", "\t", "\n"}

toUpperCaseChar(c) ==
    IF \E i \in 1..Len(LowerCase) : LowerCase[i] = c
    THEN UpperCase[CHOOSE i \in 1..Len(LowerCase) : LowerCase[i] = c]
    ELSE c

toUpperCase(s) == [i \in 1..Len(s) |-> toUpperCaseChar(s[i])]

RECURSIVE trimStart(_)
trimStart(s) ==
    IF s # <<>> /\ IsSpace(Head(s)) THEN trimStart(Tail(s)) ELSE s

RECURSIVE trimEnd(_)
trimEnd(s) ==
    IF s # <<>> /\ IsSpace(s[Len(s)])
    THEN trimEnd(SubSeq(s, 1, Len(s) - 1))
    ELSE s

trim(s) == trimEnd(trimStart(s))

\* /^[^\s@]+@[^\s@]+\.[^\s@]+$/.test(email)
validateEmail(text) ==
    LET plain(a, b) == a <= b /\ \A k \in a..b : ~IsSpace(text[k]) /\ text[k] # "@"
    IN \E i \in 1..Len(text) : \E j \in 1..Len(text) :
          /\ text[i] = "@"
          /\ text[j] = "."
          /\ plain(1, i - 1)
          /\ plain(i + 1, j - 1)
          /\ plain(j + 1, Len(text))

\* JavaScript truthiness of a string
Truthy(s) == s # <<>>

toLowerCaseChar(c) ==
    IF \E i \in 1..Len(UpperCase) : UpperCase[i] = c
    THEN LowerCase[CHOOSE i \in 1..Len(UpperCase) : UpperCase[i] = c]
    ELSE c

toLowerCase(s) == [i \in 1..Len(s) |-> toLowerCaseChar(s[i])]

\* String.prototype.includes
includes(s, q) ==
    \E i \in 0..(Len(s) - Len(q)) : SubSeq(s, i + 1, i + Len(q)) = q

\* The order of the characters that occur in product names under
\* localeCompare (letters compare without regard to case)
CollationOrder ==
    <<" ", "-", "0", "1", "2", "3", "4", "5", "6", "7", "8", "9">> \o LowerCase

CollationRank(c) ==
    LET l == toLowerCaseChar(c)
    IN  CHOOSE i \in 1..Len(CollationOrder) : CollationOrder[i] = l

\* a.localeCompare(b) as -1, 0 or 1
RECURSIVE localeCompare(_, _)
localeCompare(a, b) ==
    IF a = <<>> THEN (IF b = <<>> THEN 0 ELSE 0 - 1)
    ELSE IF b = <<>> THEN 1
    ELSE IF CollationRank(Head(a)) < CollationRank(Head(b)) THEN 0 - 1
    ELSE IF CollationRank(Head(a)) > CollationRank(Head(b)) THEN 1
    ELSE localeCompare(Tail(a), Tail(b))

\* ------------------------------------------------------------------------
\* Money helpers
\* ------------------------------------------------------------------------
\* An amount of n cents, in model units.
Cents(n) == n * 100

\* +(x).toFixed(2) for the exact non-negative amount num/den: the nearest
\* whole number of cents, halves rounded up.
toFixed2(num, den) == ((num + 50 * den) \div (100 * den)) * 100

Min(a, b) == IF a < b THEN a ELSE b
Max(a, b) == IF a > b THEN a ELSE b

\* ------------------------------------------------------------------------
\* Static data of the component
\* ------------------------------------------------------------------------
DEFAULT_SHIPPING ==
    << [id |-> "standard", cost |-> Cents(600)],
       [id |-> "express",  cost |-> Cents(1800)],
       [id |-> "pickup",   cost |-> Cents(0)] >>

DEFAULT_PAYMENT == << [id |-> "card"], [id |-> "wallet"], [id |-> "cod"] >>

DEFAULT_ITEMS ==
    << [id |-> "sku-1", price |-> Cents(2800), quantity |-> 1, stock |-> 8],
       [id |-> "sku-2", price |-> Cents(5200), quantity |-> 1, stock |-> 5] >>

COUPONS ==
    << [code |-> <<"S","A","V","E","1","0">>,             type |-> "percent",  value |-> 10],
       [code |-> <<"W","E","L","C","O","M","E","1","5">>, type |-> "percent",  value |-> 15],
       [code |-> <<"T","A","K","E","5">>,                 type |-> "fixed",    value |-> Cents(500)],
       [code |-> <<"F","R","E","E","S","H","I","P">>,     type |-> "shipping", value |-> 0] >>

\* appliedCoupon === null
Null == [code |-> <<>>, type |-> "null", value |-> 0]

\* taxRate = 0.0725 = 29/400
taxRateNum == 29
taxRateDen == 400

\* Props of the component that the host page leaves at their defaults.
shippingOptions == DEFAULT_SHIPPING
paymentMethods  == DEFAULT_PAYMENT

\* The order of the steps (goBack)
StepOrder == <<"cart", "details", "shipping", "payment", "review", "success">>

IndexOf(seq, x) ==
    IF \E i \in 1..Len(seq) : seq[i] = x
    THEN CHOOSE i \in 1..Len(seq) : seq[i] = x /\ \A k \in 1..(i - 1) : seq[k] # x
    ELSE 0

\* Array.prototype.find on the id field: index of the first match, 0 if none
FindById(seq, id) ==
    IF \E i \in 1..Len(seq) : seq[i].id = id
    THEN CHOOSE i \in 1..Len(seq) : seq[i].id = id /\ \A k \in 1..(i - 1) : seq[k].id # id
    ELSE 0

\* COUPONS.find((c) => c.code === code): index, 0 if none
FindCoupon(code) ==
    IF \E i \in 1..Len(COUPONS) : COUPONS[i].code = code
    THEN CHOOSE i \in 1..Len(COUPONS) : COUPONS[i].code = code
    ELSE 0

\* Array.prototype.filter
RECURSIVE FilterOutId(_, _)
FilterOutId(seq, id) ==
    IF seq = <<>> THEN <<>>
    ELSE IF Head(seq).id = id THEN FilterOutId(Tail(seq), id)
         ELSE <<Head(seq)>> \o FilterOutId(Tail(seq), id)

\* ------------------------------------------------------------------------
\* State
\* ------------------------------------------------------------------------
VARIABLES
    savedAddresses,      \* prop
    allowGuestCheckout,  \* prop
    step,
    cart,
    couponInput,
    appliedCoupon,
    selectedShipping,
    selectedPayment,
    useSavedAddressId,
    guestCheckout,
    contactEmail,
    orderNote,
    address,
    isPlacingOrder,
    placements,          \* handlePlaceOrder calls suspended at the await,
                         \* each with the values its closure captured
    delivered,           \* orders passed to onOrderComplete, in call order
    toast,               \* notice raised by the last handler ("none" if none)
    activations,         \* history: inputs current at each activation of
                         \* "place order"
    storage,             \* window.localStorage: the entries under STORAGE_KEYS
    \* ProductCatalog
    products,            \* prop
    callbacks,           \* the callback props that are passed
    query,
    activeCategory,
    sort,
    pageSize,
    page,
    onlyInStock,
    onlyWishlist,
    wishlist,            \* the ids p with wishlist[p] true
    wishCalls,           \* the onToggleWishlist calls made, each with the
                         \* state of its promise
    cartCalls,           \* onAddToCart promises that have not settled
    compareIds,          \* the ids p with compare[p] true
    \* UserProfile
    addresses,
    payments,
    profileCallbacks,    \* the callback props that are passed
    addressDialogOpen,
    editingAddress,      \* Null or the address being edited
    paymentDialogOpen,
    addCalls,            \* the onAddAddress, onUpdateAddress and onAddPayment
                         \* calls made, each with the state of its promise
    \* AuthenticationFlow
    authProps,           \* the callback props that are passed
    mode,
    loading,
    email,
    password,
    confirmPassword,
    errors,              \* the keys of the errors record
    successMsg,
    resetStage,
    verificationCode,
    newPassword,
    confirmNewPassword,
    authCalls,           \* the callbacks of the flow whose promises have not
                         \* settled, each with the closure of its handler
    \* Page (the host of the four components)
    view,
    loggedIn,
    pageCart,            \* the state "cart" of the page
    openedAt             \* history: the number of orders that had been
                         \* completed when the cart view was last opened

propVars    == <<savedAddresses, allowGuestCheckout>>
cartVars    == <<cart, couponInput, appliedCoupon>>
formVars    == <<useSavedAddressId, guestCheckout, contactEmail, orderNote,
                 address>>
selectVars  == <<selectedShipping, selectedPayment>>
orderVars   == <<isPlacingOrder, placements, delivered, activations>>
\* State of the other components of the storefront, which no handler of the
\* checkout component reads or writes
catalogProps == <<products, callbacks>>
filterVars  == <<query, activeCategory, sort, pageSize, onlyInStock, onlyWishlist>>
wishVars    == <<wishlist, wishCalls>>
catalogVars == <<catalogProps, filterVars, page, wishVars, cartCalls, compareIds>>
dialogVars  == <<addressDialogOpen, editingAddress, paymentDialogOpen>>
profileVars == <<profileCallbacks, addresses, payments, dialogVars, addCalls>>
loginFields == <<password, confirmPassword>>
resetFields == <<verificationCode, newPassword, confirmNewPassword>>
authVars    == <<authProps, mode, loading, email, loginFields, errors, successMsg,
                 resetStage, resetFields, authCalls>>
hostVars    == <<view, loggedIn, pageCart, openedAt>>
outerVars   == <<catalogVars, profileVars, authVars, hostVars>>
checkoutVars == <<propVars, step, cartVars, formVars, selectVars, orderVars,
                  storage>>
vars == <<outerVars, propVars, step, cartVars, formVars, selectVars, orderVars,
          toast, storage>>

\* ------------------------------------------------------------------------
\* Persistence (window.localStorage)
\* ------------------------------------------------------------------------
\* An entry of the storage is [has |-> FALSE, ...] when getItem returns null
\* and [has |-> TRUE, val |-> the stored string] otherwise.  The stored
\* string is a step or method id, "true"/"false", a text, or, under the cart
\* and address keys, a JSON text.  A JSON text is [ok |-> TRUE, value |-> v],
\* the serialization of v (cart lines and addresses hold only strings and
\* finite numbers, which JSON.parse gives back exactly); a string that is
\* not JSON is [ok |-> FALSE, ...], on which JSON.parse throws.
STORAGE_KEYS ==
    {"cart", "address", "step", "coupon", "shipping", "payment", "guest",
     "note", "email"}

JSONstringify(v) == [ok |-> TRUE, value |-> v]

JSONparseThrows(t) == ~t.ok

JSONparse(t) == t.value

\* String(b) of a boolean
String(b) == IF b THEN "true" ELSE "false"

\* the entry that setItem(key, v) leaves under the key
setItem(v) == [has |-> TRUE, val |-> v]

\* What the nine persist effects write when all of them run
Persisted ==
    [cart     |-> setItem(JSONstringify(cart)),
     step     |-> setItem(step),
     coupon   |-> setItem(IF appliedCoupon = Null THEN <<>> ELSE appliedCoupon.code),
     shipping |-> setItem(selectedShipping),
     payment  |-> setItem(selectedPayment),
     guest    |-> setItem(String(guestCheckout)),
     note     |-> setItem(orderNote),
     email    |-> setItem(contactEmail),
     address  |-> setItem(JSONstringify(address))]

\* The persist effects after the render that follows a handler: each effect
\* runs when its dependency has changed.
PersistEffects ==
    storage' =
        [cart     |-> IF cart' # cart THEN Persisted'.cart ELSE storage.cart,
         step     |-> IF step' # step THEN Persisted'.step ELSE storage.step,
         coupon   |-> IF appliedCoupon' # appliedCoupon
                      THEN Persisted'.coupon ELSE storage.coupon,
         shipping |-> IF selectedShipping' # selectedShipping
                      THEN Persisted'.shipping ELSE storage.shipping,
         payment  |-> IF selectedPayment' # selectedPayment
                      THEN Persisted'.payment ELSE storage.payment,
         guest    |-> IF guestCheckout' # guestCheckout
                      THEN Persisted'.guest ELSE storage.guest,
         note     |-> IF orderNote' # orderNote
                      THEN Persisted'.note ELSE storage.note,
         email    |-> IF contactEmail' # contactEmail
                      THEN Persisted'.email ELSE storage.email,
         address  |-> IF address' # address
                      THEN Persisted'.address ELSE storage.address]

\* ------------------------------------------------------------------------
\* Derived amounts (recomputed on every render)
\* ------------------------------------------------------------------------
RECURSIVE SumLines(_)
SumLines(items) ==
    IF items = <<>> THEN 0
    ELSE SumLines(SubSeq(items, 1, Len(items) - 1))
         + items[Len(items)].price * items[Len(items)].quantity

subtotal == SumLines(cart)

selectedShippingMethod ==
    IF FindById(shippingOptions, selectedShipping) # 0
    THEN shippingOptions[FindById(shippingOptions, selectedShipping)]
    ELSE shippingOptions[1]

selectedPaymentMethod ==
    IF FindById(paymentMethods, selectedPayment) # 0
    THEN paymentMethods[FindById(paymentMethods, selectedPayment)]
    ELSE paymentMethods[1]

shippingCost ==
    IF shippingOptions = <<>> THEN 0
    ELSE IF appliedCoupon.type = "shipping" THEN 0
    ELSE selectedShippingMethod.cost

\* Mutant of discountFor: the fixed amount is not capped at the subtotal.
discountForUncapped(coupon, sub) ==
    IF coupon = Null THEN 0
    ELSE IF coupon.type = "percent" /\ coupon.value # 0
         THEN (sub * coupon.value) \div 100
    ELSE IF coupon.type = "fixed" /\ coupon.value # 0
         THEN coupon.value
    ELSE 0

discountFor(coupon, sub) ==
    IF coupon = Null THEN 0
    ELSE IF coupon.type = "percent" /\ coupon.value # 0
         THEN (sub * coupon.value) \div 100
    ELSE IF coupon.type = "fixed" /\ coupon.value # 0
         THEN Min(coupon.value, sub)
    ELSE 0

discount == discountFor(appliedCoupon, subtotal)

taxedSubtotal == Max(subtotal - discount, 0)

tax == toFixed2(taxedSubtotal * taxRateNum, taxRateDen)

\* Mutant of total: the tax is not rounded before it is added.
totalTaxNotRounded ==
    toFixed2(taxedSubtotal * (taxRateDen + taxRateNum), taxRateDen) + shippingCost

total == toFixed2(taxedSubtotal + tax + shippingCost, 1)

\* ------------------------------------------------------------------------
\* Step guards and selections
\* ------------------------------------------------------------------------
isCartEmpty == Len(cart) = 0

canProceedFromCart == ~isCartEmpty

canProceedFromDetails ==
    /\ (IF guestCheckout THEN Truthy(contactEmail) ELSE TRUE)
    /\ (IF useSavedAddressId # "new"
        THEN FindById(savedAddresses, useSavedAddressId) # 0
        ELSE /\ Truthy(address.fullName)
             /\ Truthy(address.line1)
             /\ Truthy(address.city)
             /\ Truthy(address.postalCode)
             /\ Truthy(address.country))

canProceedFromShipping == selectedShipping # ""

canProceedFromPayment == selectedPayment # ""

\* find(...) as Address when no saved address has the selected id
UndefinedAddress ==
    [id |-> "undefined", fullName |-> <<>>, line1 |-> <<>>, city |-> <<>>,
     postalCode |-> <<>>, country |-> <<>>, email |-> <<>>, isDefault |-> FALSE]

selectedAddress ==
    IF useSavedAddressId # "new"
    THEN IF FindById(savedAddresses, useSavedAddressId) # 0
         THEN savedAddresses[FindById(savedAddresses, useSavedAddressId)]
         ELSE UndefinedAddress
    ELSE [address EXCEPT !.id = "new"]

\* The order summary (quantity fields, remove buttons) is part of every
\* step but the last.
SummaryShown == step \in {"cart", "details", "shipping", "payment", "review"}

\* ------------------------------------------------------------------------
\* Cart handlers
\* ------------------------------------------------------------------------
\* Mutant of validateQty: a quantity equal to the stock is rejected too.
validateQtyBelowStock(item, nextQty) ==
    IF nextQty < 1 THEN TRUE
    ELSE IF nextQty >= item.stock THEN FALSE
    ELSE TRUE

validateQty(item, nextQty) ==
    IF nextQty < 1 THEN TRUE
    ELSE IF nextQty > item.stock THEN FALSE
    ELSE TRUE

\* The notice validateQty raises as a side effect
validateQtyToast(item, nextQty) ==
    IF nextQty >= 1 /\ nextQty > item.stock THEN "stock-error" ELSE "none"

updateQtyCart(prev, id, nextQty) ==
    [i \in 1..Len(prev) |->
        IF prev[i].id # id THEN prev[i]
        ELSE IF ~validateQty(prev[i], nextQty) THEN prev[i]
        ELSE [prev[i] EXCEPT !.quantity = nextQty]]

updateQty(id, nextQty) ==
    /\ cart' = updateQtyCart(cart, id, nextQty)
    /\ toast' = IF FindById(cart, id) # 0
                THEN validateQtyToast(cart[FindById(cart, id)], nextQty)
                ELSE "none"
    /\ UNCHANGED <<outerVars, propVars, step, couponInput, appliedCoupon, formVars,
                   selectVars, orderVars>>
    /\ PersistEffects

\* onChange of a quantity field: text is <<>> (field emptied) or <<n>>
\* (the field reads as the number n); Number(e.target.value || 1)
QtyFieldNumber(text) == IF text = <<>> THEN 1 ELSE text[1]

QtyFieldChange(id, text) ==
    /\ SummaryShown
    /\ FindById(cart, id) # 0
    /\ updateQty(id, QtyFieldNumber(text))

removeItem(id) ==
    /\ SummaryShown
    /\ FindById(cart, id) # 0
    /\ cart' = FilterOutId(cart, id)
    /\ toast' = "item-removed"
    /\ UNCHANGED <<outerVars, propVars, step, couponInput, appliedCoupon, formVars,
                   selectVars, orderVars>>
    /\ PersistEffects

\* ------------------------------------------------------------------------
\* Coupon handlers (the coupon box is part of the cart step only)
\* ------------------------------------------------------------------------
SetCouponInput(text) ==
    /\ step = "cart"
    /\ couponInput' = text
    /\ toast' = "none"
    /\ UNCHANGED <<outerVars, propVars, step, cart, appliedCoupon, formVars,
                   selectVars, orderVars>>
    /\ PersistEffects

\* Mutant of applyCoupon: an unrecognized code drops the applied coupon.
applyCouponDropsOnUnknown ==
    /\ step = "cart"
    /\ LET code == toUpperCase(trim(couponInput)) IN
         IF ~Truthy(code)
         THEN /\ toast' = "none"
              /\ UNCHANGED appliedCoupon
         ELSE IF FindCoupon(code) = 0
         THEN /\ toast' = "coupon-error"
              /\ appliedCoupon' = Null
         ELSE /\ appliedCoupon' = COUPONS[FindCoupon(code)]
              /\ toast' = "coupon-applied"
    /\ UNCHANGED <<outerVars, propVars, step, cart, couponInput, formVars,
                   selectVars, orderVars>>
    /\ PersistEffects

applyCoupon ==
    /\ step = "cart"
    /\ LET code == toUpperCase(trim(couponInput)) IN
         IF ~Truthy(code)
         THEN /\ toast' = "none"
              /\ UNCHANGED appliedCoupon
         ELSE IF FindCoupon(code) = 0
         THEN /\ toast' = "coupon-error"
              /\ UNCHANGED appliedCoupon
         ELSE /\ appliedCoupon' = COUPONS[FindCoupon(code)]
              /\ toast' = "coupon-applied"
    /\ UNCHANGED <<outerVars, propVars, step, cart, couponInput, formVars,
                   selectVars, orderVars>>
    /\ PersistEffects

clearCoupon ==
    /\ step = "cart"
    /\ appliedCoupon # Null
    /\ appliedCoupon' = Null
    /\ couponInput' = <<>>
    /\ toast' = "none"
    /\ UNCHANGED <<outerVars, propVars, step, cart, formVars, selectVars, orderVars>>
    /\ PersistEffects

\* ------------------------------------------------------------------------
\* Details, shipping and payment forms
\* ------------------------------------------------------------------------
SetGuestCheckout(checked) ==
    /\ step = "details"
    /\ allowGuestCheckout
    /\ guestCheckout' = checked
    /\ toast' = "none"
    /\ UNCHANGED <<outerVars, propVars, step, cartVars, useSavedAddressId, contactEmail,
                   orderNote, address, selectVars, orderVars>>
    /\ PersistEffects

SetContactEmail(text) ==
    /\ step = "details"
    /\ contactEmail' = text
    /\ toast' = "none"
    /\ UNCHANGED <<outerVars, propVars, step, cartVars, useSavedAddressId, guestCheckout,
                   orderNote, address, selectVars, orderVars>>
    /\ PersistEffects

\* "Order notes" field of the details step
SetOrderNote(text) ==
    /\ step = "details"
    /\ orderNote' = text
    /\ toast' = "none"
    /\ UNCHANGED <<outerVars, propVars, step, cartVars, useSavedAddressId,
                   guestCheckout, contactEmail, address, selectVars, orderVars>>
    /\ PersistEffects

SetUseSavedAddressId(v) ==
    /\ step = "details"
    /\ Len(savedAddresses) > 0
    /\ v = "new" \/ FindById(savedAddresses, v) # 0
    /\ useSavedAddressId' = v
    /\ toast' = "none"
    /\ UNCHANGED <<outerVars, propVars, step, cartVars, guestCheckout, contactEmail,
                   orderNote, address, selectVars, orderVars>>
    /\ PersistEffects

RequiredAddressFields == {"fullName", "line1", "city", "postalCode", "country"}

SetAddressField(field, text) ==
    /\ step = "details"
    /\ useSavedAddressId = "new"
    /\ field \in RequiredAddressFields
    /\ address' = [address EXCEPT ![field] = text]
    /\ toast' = "none"
    /\ UNCHANGED <<outerVars, propVars, step, cartVars, useSavedAddressId, guestCheckout,
                   contactEmail, orderNote, selectVars, orderVars>>
    /\ PersistEffects

SetSelectedShipping(id) ==
    /\ step = "shipping"
    /\ FindById(shippingOptions, id) # 0
    /\ selectedShipping' = id
    /\ toast' = "none"
    /\ UNCHANGED <<outerVars, propVars, step, cartVars, formVars, selectedPayment, orderVars>>
    /\ PersistEffects

SetSelectedPayment(id) ==
    /\ step = "payment"
    /\ FindById(paymentMethods, id) # 0
    /\ selectedPayment' = id
    /\ toast' = "none"
    /\ UNCHANGED <<outerVars, propVars, step, cartVars, formVars, selectedShipping, orderVars>>
    /\ PersistEffects

\* ------------------------------------------------------------------------
\* Step navigation
\* ------------------------------------------------------------------------
setStep(next) ==
    /\ step' = next
    /\ toast' = "none"
    /\ UNCHANGED <<outerVars, propVars, cartVars, formVars, selectVars, orderVars>>
    /\ PersistEffects

\* "Checkout" button of the cart step
Checkout ==
    /\ step = "cart"
    /\ canProceedFromCart
    /\ setStep("details")

\* "Continue to shipping" button of the details step
ContinueToShipping ==
    /\ step = "details"
    /\ canProceedFromDetails
    /\ setStep("shipping")

\* "Continue to payment" button of the shipping step
ContinueToPayment ==
    /\ step = "shipping"
    /\ canProceedFromShipping
    /\ setStep("payment")

\* "Review order" button of the payment step
ReviewOrder ==
    /\ step = "payment"
    /\ canProceedFromPayment
    /\ setStep("review")

\* Mutant of goBack: the back button is offered on the success step too.
goBackFromSuccess ==
    /\ step \in {"details", "shipping", "payment", "review", "success"}
    /\ IndexOf(StepOrder, step) > 1
    /\ setStep(StepOrder[IndexOf(StepOrder, step) - 1])

\* "Back" button of the details, shipping, payment and review steps
goBack ==
    /\ step \in {"details", "shipping", "payment", "review"}
    /\ IndexOf(StepOrder, step) > 1
    /\ setStep(StepOrder[IndexOf(StepOrder, step) - 1])

\* "Continue shopping" button of the success step
ContinueShopping ==
    /\ step = "success"
    /\ setStep("cart")

\* ------------------------------------------------------------------------
\* Order placement
\* ------------------------------------------------------------------------
\* The values of the render in which "place order" was clicked, which the
\* closure of handlePlaceOrder keeps across the await.
PlaceOrderClosure ==
    [cart |-> cart,
     subtotal |-> subtotal,
     discount |-> discount,
     shippingCost |-> shippingCost,
     tax |-> tax,
     total |-> total,
     selectedAddress |-> selectedAddress,
     selectedShippingMethod |-> selectedShippingMethod,
     selectedPaymentMethod |-> selectedPaymentMethod,
     contactEmail |-> contactEmail,
     appliedCoupon |-> appliedCoupon,
     mounted |-> TRUE]   \* the instance that made the call is still mounted

\* Mutant of OrderOf: the order is built from the state at the time the
\* timer fires instead of the values the closure captured.
OrderOfCurrentState(c) ==
    [items |-> cart,
     subtotal |-> subtotal,
     discount |-> discount,
     shipping |-> shippingCost,
     tax |-> tax,
     total |-> total,
     address |-> selectedAddress,
     shippingMethod |-> selectedShippingMethod,
     paymentMethod |-> selectedPaymentMethod,
     email |-> IF Truthy(contactEmail) THEN contactEmail ELSE selectedAddress.email,
     coupon |-> appliedCoupon.code]

\* The order object built after the await (its random id carries no state
\* and is left out).
OrderOf(c) ==
    [items |-> c.cart,
     subtotal |-> c.subtotal,
     discount |-> c.discount,
     shipping |-> c.shippingCost,
     tax |-> c.tax,
     total |-> c.total,
     address |-> c.selectedAddress,
     shippingMethod |-> c.selectedShippingMethod,
     paymentMethod |-> c.selectedPaymentMethod,
     email |-> IF Truthy(c.contactEmail) THEN c.contactEmail
               ELSE c.selectedAddress.email,
     coupon |-> c.appliedCoupon.code]

\* Mutant of handlePlaceOrder: the button is not disabled for an empty cart.
handlePlaceOrderEmptyCart ==
    /\ step = "review"
    /\ ~isPlacingOrder
    /\ isPlacingOrder' = TRUE
    /\ placements' = Append(placements, PlaceOrderClosure)
    /\ activations' = Append(activations,
                             [cart |-> cart,
                              appliedCoupon |-> appliedCoupon,
                              selectedShipping |-> selectedShipping])
    /\ toast' = "none"
    /\ UNCHANGED <<outerVars, propVars, step, cartVars, formVars, selectVars, delivered>>
    /\ PersistEffects

\* Mutant of handlePlaceOrder: the button is not disabled while placing.
handlePlaceOrderWhilePlacing ==
    /\ step = "review"
    /\ Len(cart) # 0
    /\ isPlacingOrder' = TRUE
    /\ placements' = Append(placements, PlaceOrderClosure)
    /\ activations' = Append(activations,
                             [cart |-> cart,
                              appliedCoupon |-> appliedCoupon,
                              selectedShipping |-> selectedShipping])
    /\ toast' = "none"
    /\ UNCHANGED <<outerVars, propVars, step, cartVars, formVars, selectVars, delivered>>
    /\ PersistEffects

\* "Place order" button of the review step, up to the await
handlePlaceOrder ==
    /\ step = "review"
    /\ ~(isPlacingOrder \/ Len(cart) = 0)
    /\ isPlacingOrder' = TRUE
    /\ placements' = Append(placements, PlaceOrderClosure)
    /\ activations' = Append(activations,
                             [cart |-> cart,
                              appliedCoupon |-> appliedCoupon,
                              selectedShipping |-> selectedShipping])
    /\ toast' = "none"
    /\ UNCHANGED <<outerVars, propVars, step, cartVars, formVars, selectVars, delivered>>
    /\ PersistEffects

\* Mutant of PlaceOrderResolve: leaving the review step cancels the placement.
PlaceOrderResolveUnlessLeft ==
    /\ Len(placements) > 0
    /\ Head(placements).mounted
    /\ placements' = Tail(placements)
    /\ isPlacingOrder' = FALSE
    /\ IF step = "review"
       THEN /\ delivered' = Append(delivered, OrderOf(Head(placements)))
            /\ step' = "success"
            /\ cart' = <<>>
            /\ toast' = "order-placed"
       ELSE /\ toast' = "none"
            /\ UNCHANGED <<delivered, step, cart>>
    /\ UNCHANGED <<outerVars, propVars, couponInput, appliedCoupon, formVars, selectVars,
                   activations>>
    /\ PersistEffects

\* The 900 ms timer fires and handlePlaceOrder runs to its end
PlaceOrderResolve ==
    /\ Len(placements) > 0
    /\ Head(placements).mounted
    /\ delivered' = Append(delivered, OrderOf(Head(placements)))
    /\ placements' = Tail(placements)
    /\ step' = "success"
    /\ isPlacingOrder' = FALSE
    /\ cart' = <<>>
    /\ toast' = "order-placed"
    /\ UNCHANGED <<outerVars, propVars, couponInput, appliedCoupon, formVars, selectVars,
                   activations>>
    /\ PersistEffects

\* The timer of a call fires whose instance has been unmounted: the order
\* is built and handed to onOrderComplete, the notice is raised, and the
\* state updates are dropped.
PlaceOrderResolveUnmounted ==
    /\ Len(placements) > 0
    /\ ~Head(placements).mounted
    /\ delivered' = Append(delivered, OrderOf(Head(placements)))
    /\ placements' = Tail(placements)
    /\ toast' = "order-placed"
    /\ UNCHANGED <<outerVars, propVars, step, cartVars, formVars, selectVars,
                   isPlacingOrder, activations, storage>>

\* ------------------------------------------------------------------------
\* Product catalog (ProductCatalog)
\* ------------------------------------------------------------------------
\* A product is a record with the fields id, name, brand, sku, category,
\* price, inStock and inventoryCount.  An optional text that is absent is
\* <<>> (brand, sku) or "" (category); inStock is "true", "false" or
\* "undefined"; inventoryCount is <<n>>, or <<>> when it is absent.
pageSizeOptions == <<1, 3>>

defaultPageSize == 3

SortOptions ==
    {"relevance", "price-asc", "price-desc", "name-asc", "name-desc", "newest"}

\* The characters of a product id
idText(id) ==
    CASE id = "p-001" -> <<"p", "-", "0", "0", "1">>
      [] id = "p-002" -> <<"p", "-", "0", "0", "2">>
      [] id = "p-003" -> <<"p", "-", "0", "0", "3">>
      [] id = "p-004" -> <<"p", "-", "0", "0", "4">>
      [] id = "p-005" -> <<"p", "-", "0", "0", "5">>
      [] id = "p-006" -> <<"p", "-", "0", "0", "6">>

\* The state after the first render with the given props
CatalogMount(prods, given) ==
    /\ products = prods
    /\ callbacks = given
    /\ query = <<>>
    /\ activeCategory = "all"
    /\ sort = "relevance"
    /\ pageSize = defaultPageSize
    /\ page = 1
    /\ onlyInStock = FALSE
    /\ onlyWishlist = FALSE
    /\ wishlist = {}
    /\ wishCalls = <<>>
    /\ cartCalls = <<>>
    /\ compareIds = {}

\* categories, without the leading "all"
productCategories ==
    {products[i].category : i \in {k \in 1..Len(products) : products[k].category # ""}}

categories == {"all"} \cup productCategories

\* list.filter(...) on the products, one operator per filter of computed
RECURSIVE filterQuery(_, _)
filterQuery(list, q) ==
    IF list = <<>> THEN <<>>
    ELSE LET p == Head(list)
             keep == \/ includes(toLowerCase(p.name), q)
                     \/ (Truthy(p.brand) /\ includes(toLowerCase(p.brand), q))
                     \/ (Truthy(p.sku) /\ includes(toLowerCase(p.sku), q))
         IN  (IF keep THEN <<p>> ELSE <<>>) \o filterQuery(Tail(list), q)

RECURSIVE filterCategory(_, _)
filterCategory(list, c) ==
    IF list = <<>> THEN <<>>
    ELSE (IF Head(list).category = c THEN <<Head(list)>> ELSE <<>>)
         \o filterCategory(Tail(list), c)

\* p.inventoryCount ?? d
inventoryCountOr(p, d) ==
    IF p.inventoryCount = <<>> THEN d ELSE p.inventoryCount[1]

\* The predicate of the in-stock filter
inStockFilter(p) == p.inStock # "false" /\ inventoryCountOr(p, 1) > 0

RECURSIVE filterInStock(_)
filterInStock(list) ==
    IF list = <<>> THEN <<>>
    ELSE (IF inStockFilter(Head(list)) THEN <<Head(list)>> ELSE <<>>)
         \o filterInStock(Tail(list))

RECURSIVE filterWishlist(_, _)
filterWishlist(list, w) ==
    IF list = <<>> THEN <<>>
    ELSE (IF Head(list).id \in w THEN <<Head(list)>> ELSE <<>>)
         \o filterWishlist(Tail(list), w)

\* The comparators handed to list.sort
compare(option, a, b) ==
    CASE option = "price-asc"  -> a.price - b.price
      [] option = "price-desc" -> b.price - a.price
      [] option = "name-asc"   -> localeCompare(a.name, b.name)
      [] option = "name-desc"  -> localeCompare(b.name, a.name)
      [] option = "newest"     -> localeCompare(idText(b.id), idText(a.id))

\* Array.prototype.sort, which is stable: x goes behind every element that
\* does not compare greater than x
RECURSIVE insertSorted(_, _, _)
insertSorted(sorted, x, option) ==
    IF sorted = <<>> THEN <<x>>
    ELSE IF compare(option, sorted[Len(sorted)], x) <= 0 THEN Append(sorted, x)
    ELSE Append(insertSorted(SubSeq(sorted, 1, Len(sorted) - 1), x, option),
                sorted[Len(sorted)])

RECURSIVE sortList(_, _)
sortList(list, option) ==
    IF list = <<>> THEN <<>>
    ELSE insertSorted(sortList(SubSeq(list, 1, Len(list) - 1), option),
                      list[Len(list)], option)

\* Mutant of ceilDiv: the quotient is rounded down.
floorDiv(a, b) == a \div b

\* Math.ceil(a / b) for a >= 0, b > 0
ceilDiv(a, b) == (a + b - 1) \div b

\* list.slice(start, end), 0 <= start <= end
slice(list, start, end) == SubSeq(list, start + 1, Min(end, Len(list)))

\* Mutant of computedList: the category filter is skipped while a query
\* is active.
computedListQueryOverCategory ==
    LET l1 == IF Truthy(trim(query))
              THEN filterQuery(products, toLowerCase(query)) ELSE products
        l2 == IF activeCategory # "all" /\ ~Truthy(trim(query))
              THEN filterCategory(l1, activeCategory) ELSE l1
        l3 == IF onlyInStock THEN filterInStock(l2) ELSE l2
        l4 == IF onlyWishlist THEN filterWishlist(l3, wishlist) ELSE l3
    IN  IF sort = "relevance" THEN l4 ELSE sortList(l4, sort)

\* The list of computed after the filters and the sort
computedList ==
    LET l1 == IF Truthy(trim(query))
              THEN filterQuery(products, toLowerCase(query)) ELSE products
        l2 == IF activeCategory # "all" THEN filterCategory(l1, activeCategory) ELSE l1
        l3 == IF onlyInStock THEN filterInStock(l2) ELSE l2
        l4 == IF onlyWishlist THEN filterWishlist(l3, wishlist) ELSE l3
    IN  IF sort = "relevance" THEN l4 ELSE sortList(l4, sort)

\* Mutant of computedAt: the remembered page is not clamped.
computedAtUnclamped(pg) ==
    LET list == computedList
        count == Len(list)
        pages == Max(1, ceilDiv(count, pageSize))
        current == pg
        start == (current - 1) * pageSize
    IN  [total |-> count,
         totalPages |-> pages,
         currentPage |-> current,
         items |-> slice(list, start, start + pageSize)]

\* computed, for the remembered page pg
computedAt(pg) ==
    LET list == computedList
        count == Len(list)
        pages == Max(1, ceilDiv(count, pageSize))
        current == Min(pg, pages)
        start == (current - 1) * pageSize
    IN  [total |-> count,
         totalPages |-> pages,
         currentPage |-> current,
         items |-> slice(list, start, start + pageSize)]

computed == computedAt(page)

canPrev == computed.currentPage > 1

canNext == computed.currentPage < computed.totalPages

\* loading and error are left at their defaults
showEmpty == computed.total = 0

\* The product cards of the current page carry the buttons
Displayed(p) ==
    \E i \in 1..Len(computed.items) : computed.items[i] = p

\* The badge of a product card reads "Out of stock"
outOfStockBadge(p) == p.inStock = "false" \/ inventoryCountOr(p, 0) <= 0

\* The page reset effect: after a render in which one of its dependencies
\* has changed it sets the page to 1
PageResetEffect ==
    page' = IF filterVars' # filterVars THEN 1 ELSE page

setQuery(text) ==
    /\ query' = text
    /\ UNCHANGED <<activeCategory, sort, pageSize, onlyInStock, onlyWishlist>>
    /\ PageResetEffect
    /\ toast' = "none"
    /\ UNCHANGED <<catalogProps, wishVars, cartCalls, compareIds, profileVars,
                   authVars, hostVars, checkoutVars>>

setActiveCategory(c) ==
    /\ Cardinality(categories) > 1
    /\ c \in categories
    /\ activeCategory' = c
    /\ UNCHANGED <<query, sort, pageSize, onlyInStock, onlyWishlist>>
    /\ PageResetEffect
    /\ toast' = "none"
    /\ UNCHANGED <<catalogProps, wishVars, cartCalls, compareIds, profileVars,
                   authVars, hostVars, checkoutVars>>

setSort(v) ==
    /\ v \in SortOptions
    /\ sort' = v
    /\ UNCHANGED <<query, activeCategory, pageSize, onlyInStock, onlyWishlist>>
    /\ PageResetEffect
    /\ toast' = "none"
    /\ UNCHANGED <<catalogProps, wishVars, cartCalls, compareIds, profileVars,
                   authVars, hostVars, checkoutVars>>

\* Mutant of setPageSize: the page size is no dependency of the page reset
\* effect.
setPageSizeKeepingPage(n) ==
    /\ ~showEmpty
    /\ \E i \in 1..Len(pageSizeOptions) : pageSizeOptions[i] = n
    /\ pageSize' = n
    /\ UNCHANGED <<query, activeCategory, sort, onlyInStock, onlyWishlist>>
    /\ page' = page
    /\ toast' = "none"
    /\ UNCHANGED <<catalogProps, wishVars, cartCalls, compareIds, profileVars,
                   authVars, hostVars, checkoutVars>>

\* The page size selector of the results header
setPageSize(n) ==
    /\ ~showEmpty
    /\ \E i \in 1..Len(pageSizeOptions) : pageSizeOptions[i] = n
    /\ pageSize' = n
    /\ UNCHANGED <<query, activeCategory, sort, onlyInStock, onlyWishlist>>
    /\ PageResetEffect
    /\ toast' = "none"
    /\ UNCHANGED <<catalogProps, wishVars, cartCalls, compareIds, profileVars,
                   authVars, hostVars, checkoutVars>>

setOnlyInStock(v) ==
    /\ onlyInStock' = v
    /\ UNCHANGED <<query, activeCategory, sort, pageSize, onlyWishlist>>
    /\ PageResetEffect
    /\ toast' = "none"
    /\ UNCHANGED <<catalogProps, wishVars, cartCalls, compareIds, profileVars,
                   authVars, hostVars, checkoutVars>>

setOnlyWishlist(v) ==
    /\ onlyWishlist' = v
    /\ UNCHANGED <<query, activeCategory, sort, pageSize, onlyInStock>>
    /\ PageResetEffect
    /\ toast' = "none"
    /\ UNCHANGED <<catalogProps, wishVars, cartCalls, compareIds, profileVars,
                   authVars, hostVars, checkoutVars>>

\* "Reset filters" button of the empty state
ResetFilters ==
    /\ showEmpty
    /\ query' = <<>>
    /\ activeCategory' = "all"
    /\ onlyInStock' = FALSE
    /\ onlyWishlist' = FALSE
    /\ sort' = "relevance"
    /\ page' = 1
    /\ toast' = "none"
    /\ UNCHANGED <<pageSize, catalogProps, wishVars, cartCalls, compareIds, profileVars,
                   authVars, hostVars, checkoutVars>>

\* The pagination buttons, rendered when there is more than one page
setPage(next) ==
    /\ computed.totalPages > 1
    /\ page' = next
    /\ toast' = "none"
    /\ UNCHANGED <<catalogProps, filterVars, wishVars, cartCalls, compareIds, profileVars,
                   authVars, hostVars, checkoutVars>>

PrevPage ==
    /\ canPrev
    /\ setPage(page - 1)

NextPage ==
    /\ canNext
    /\ setPage(page + 1)

\* One of the up to five numbered buttons
NumberedPage(n) ==
    /\ n \in 1..Min(5, computed.totalPages)
    /\ setPage(n)

\* The button of the last page, behind the ellipsis
LastPage ==
    /\ computed.totalPages > 5
    /\ setPage(computed.totalPages)

\* The heart button of a product card
toggleWishlist(p) ==
    /\ Displayed(p)
    /\ LET next == p.id \notin wishlist
       IN  /\ wishlist' = IF next THEN wishlist \cup {p.id} ELSE wishlist \ {p.id}
           /\ IF "onToggleWishlist" \in callbacks
              THEN /\ wishCalls' = Append(wishCalls,
                                          [id |-> p.id, next |-> next,
                                           state |-> "pending"])
                   /\ toast' = "none"
              ELSE /\ UNCHANGED wishCalls
                   /\ toast' = IF next THEN "wishlist-updated" ELSE "wishlist-removed"
    /\ UNCHANGED <<catalogProps, filterVars, page, cartCalls, compareIds, profileVars,
                   authVars, hostVars, checkoutVars>>

\* The promise of the i-th onToggleWishlist call is fulfilled (.then)
WishlistResolve(i) ==
    /\ i \in 1..Len(wishCalls)
    /\ wishCalls[i].state = "pending"
    /\ wishCalls' = [wishCalls EXCEPT ![i].state = "resolved"]
    /\ toast' = IF wishCalls[i].next THEN "wishlist-added" ELSE "wishlist-removed"
    /\ UNCHANGED <<catalogProps, filterVars, page, wishlist, cartCalls, compareIds,
                   profileVars, authVars, hostVars, checkoutVars>>

\* The promise of the i-th onToggleWishlist call is rejected (.catch)
WishlistReject(i) ==
    /\ i \in 1..Len(wishCalls)
    /\ wishCalls[i].state = "pending"
    /\ wishlist' = IF ~wishCalls[i].next
                   THEN wishlist \cup {wishCalls[i].id}
                   ELSE wishlist \ {wishCalls[i].id}
    /\ wishCalls' = [wishCalls EXCEPT ![i].state = "rejected"]
    /\ toast' = "wishlist-error"
    /\ UNCHANGED <<catalogProps, filterVars, page, cartCalls, compareIds, profileVars,
                   authVars, hostVars, checkoutVars>>

\* The test at the head of handleAddToCart
addToCartRefused(p) == p.inStock = "false" \/ inventoryCountOr(p, 0) <= 0

\* The "Add" button of a product card
handleAddToCart(p) ==
    /\ Displayed(p)
    /\ IF addToCartRefused(p)
       THEN /\ toast' = "out-of-stock"
            /\ UNCHANGED cartCalls
       ELSE IF "onAddToCart" \in callbacks
       THEN /\ cartCalls' = Append(cartCalls, p.id)
            /\ toast' = "none"
       ELSE /\ toast' = "added-to-cart"
            /\ UNCHANGED cartCalls
    /\ UNCHANGED <<catalogProps, filterVars, page, wishVars, compareIds,
                   profileVars,
                   authVars, hostVars, checkoutVars>>

\* The promise of the i-th pending onAddToCart call settles
AddToCartSettle(i, fulfilled) ==
    /\ i \in 1..Len(cartCalls)
    /\ cartCalls' = [k \in 1..(Len(cartCalls) - 1) |->
                        IF k < i THEN cartCalls[k] ELSE cartCalls[k + 1]]
    /\ toast' = IF fulfilled THEN "added-to-cart" ELSE "add-to-cart-failed"
    /\ UNCHANGED <<catalogProps, filterVars, page, wishVars, compareIds,
                   profileVars,
                   authVars, hostVars, checkoutVars>>

\* Mutant of toggleCompare: the limit is tested before the toggle is applied.
toggleCompareLimitBefore(p) ==
    /\ Displayed(p) \/ p.id \in compareIds
    /\ IF Cardinality(compareIds) > 4
       THEN /\ toast' = "compare-limit"
            /\ UNCHANGED compareIds
       ELSE /\ toast' = "none"
            /\ compareIds' = IF p.id \notin compareIds
                             THEN compareIds \cup {p.id}
                             ELSE compareIds \ {p.id}
    /\ UNCHANGED <<catalogProps, filterVars, page, wishVars, cartCalls,
                   profileVars, authVars, hostVars, checkoutVars>>

\* The compare control of a product card, or the remove button of a product
\* in the compare tray
toggleCompare(p) ==
    /\ Displayed(p) \/ p.id \in compareIds
    /\ LET nextVal == p.id \notin compareIds
           next == IF nextVal THEN compareIds \cup {p.id} ELSE compareIds \ {p.id}
       IN  IF Cardinality(next) > 4
           THEN /\ toast' = "compare-limit"
                /\ UNCHANGED compareIds
           ELSE /\ toast' = "none"
                /\ compareIds' = next
    /\ UNCHANGED <<catalogProps, filterVars, page, wishVars, cartCalls,
                   profileVars, authVars, hostVars, checkoutVars>>

\* The "Clear" button of the compare tray
ClearCompare ==
    /\ compareIds # {}
    /\ compareIds' = {}
    /\ UNCHANGED <<catalogProps, filterVars, page, wishVars, cartCalls, toast,
                   profileVars, authVars, hostVars, checkoutVars>>

\* The parent renders the catalog with another products prop
ProductsChange(prods) ==
    /\ products' = prods
    /\ UNCHANGED <<callbacks, filterVars, page, wishVars, cartCalls, compareIds,
                   toast, profileVars, authVars, hostVars, checkoutVars>>

\* ------------------------------------------------------------------------
\* User profile (UserProfile)
\* ------------------------------------------------------------------------
\* An address is modelled by its id, its label and its default flag; the
\* other required fields (name, line1, city, postalCode, country) are
\* validated exactly as the label is. A flag that is absent is "undefined".
fallbackAddresses ==
    << [id |-> "addr-1", label |-> <<"H","o","m","e">>, isDefault |-> "true"],
       [id |-> "addr-2", label |-> <<"O","f","f","i","c","e">>,
        isDefault |-> "undefined"] >>

fallbackPayments ==
    << [id |-> "pm-1", brand |-> "visa", last4 |-> <<"4","2","4","2">>,
        expiry |-> <<"0","4","/","2","8">>, isDefault |-> "true"],
       [id |-> "pm-2", brand |-> "mastercard", last4 |-> <<"4","4","4","4">>,
        expiry |-> <<"1","1","/","2","7">>, isDefault |-> "undefined"] >>

\* The state after the first render; a prop is <<>> when it is not passed
\* and <<list>> when it is
ProfileMount(addressesProp, paymentProp, given) ==
    /\ profileCallbacks = given
    /\ addresses = IF addressesProp # <<>> THEN addressesProp[1]
                   ELSE fallbackAddresses
    /\ payments = IF paymentProp # <<>> THEN paymentProp[1]
                  ELSE fallbackPayments
    /\ addressDialogOpen = FALSE
    /\ editingAddress = Null
    /\ paymentDialogOpen = FALSE
    /\ addCalls = <<>>

\* Boolean(data.get("isDefault")) as a flag of a stored record
Flag(b) == IF b THEN "true" ELSE "false"

\* prev.map((a) => ({ ...a, isDefault: false }))
clearDefaults(list) == [i \in 1..Len(list) |-> [list[i] EXCEPT !.isDefault = "false"]]

\* The updater of the optimistic insert: next.unshift(created)
insertCreated(prev, created) ==
    <<created>> \o (IF created.isDefault = "true" THEN clearDefaults(prev) ELSE prev)

\* prev.map((a) => (a.id === id ? record : a))
replaceById(prev, id, record) ==
    [i \in 1..Len(prev) |-> IF prev[i].id = id THEN record ELSE prev[i]]

\* The ids that Math.random() can give
RandomAddressIds == {"addr-r1", "addr-r2"}
RandomPaymentIds == {"pm-r1", "pm-r2"}

\* The dialog of the address book is opened or closed (onOpenChange)
SetAddressDialogOpen(open) ==
    /\ addressDialogOpen' = open
    /\ UNCHANGED <<profileCallbacks, addresses, payments, editingAddress,
                   paymentDialogOpen, addCalls, toast, catalogVars, authVars,
                   hostVars, checkoutVars>>

\* The "Edit" button of an address
openEditAddress(a) ==
    /\ \E i \in 1..Len(addresses) : addresses[i] = a
    /\ editingAddress' = a
    /\ addressDialogOpen' = TRUE
    /\ UNCHANGED <<profileCallbacks, addresses, payments, paymentDialogOpen,
                   addCalls, toast, catalogVars, authVars, hostVars, checkoutVars>>

\* The "Cancel" button of the address dialog
resetAddressDialog ==
    /\ addressDialogOpen
    /\ editingAddress' = Null
    /\ addressDialogOpen' = FALSE
    /\ UNCHANGED <<profileCallbacks, addresses, payments, paymentDialogOpen,
                   addCalls, toast, catalogVars, authVars, hostVars, checkoutVars>>

\* The address form is submitted with a label, the default box and, for a
\* new address, the id that Math.random() gives
saveAddress(label, isDefault, randomId) ==
    /\ addressDialogOpen
    /\ IF ~Truthy(label)
       THEN /\ toast' = "address-required"
            /\ UNCHANGED <<addresses, addCalls, addressDialogOpen, editingAddress>>
       ELSE IF editingAddress # Null
       THEN LET updated == [editingAddress EXCEPT !.label = label,
                                                  !.isDefault = Flag(isDefault)]
            IN  /\ addresses' = replaceById(addresses, editingAddress.id, updated)
                /\ IF "onUpdateAddress" \in profileCallbacks
                   THEN /\ addCalls' = Append(addCalls,
                               [op |-> "onUpdateAddress", created |-> updated,
                                before |-> addresses, state |-> "pending"])
                        /\ toast' = "none"
                        /\ UNCHANGED <<addressDialogOpen, editingAddress>>
                   ELSE /\ toast' = "address-updated"
                        /\ editingAddress' = Null
                        /\ addressDialogOpen' = FALSE
                        /\ UNCHANGED addCalls
       ELSE LET created == [id |-> randomId, label |-> label,
                            isDefault |-> Flag(isDefault)]
            IN  /\ addresses' = insertCreated(addresses, created)
                /\ IF "onAddAddress" \in profileCallbacks
                   THEN /\ addCalls' = Append(addCalls,
                               [op |-> "onAddAddress", created |-> created,
                                before |-> addresses, state |-> "pending"])
                        /\ toast' = "none"
                        /\ UNCHANGED <<addressDialogOpen, editingAddress>>
                   ELSE /\ toast' = "address-added"
                        /\ editingAddress' = Null
                        /\ addressDialogOpen' = FALSE
                        /\ UNCHANGED addCalls
    /\ UNCHANGED <<profileCallbacks, payments, paymentDialogOpen, catalogVars,
                   authVars, hostVars, checkoutVars>>

\* The record a server answers an add with
ServerRecord(created, serverId) == [created EXCEPT !.id = serverId]

\* The promise of the i-th call, made by saveAddress, is fulfilled, with a
\* record of the server when answer is <<id>> and with nothing when it is
\* <<>>: the rest of the try block runs
SaveAddressResolve(i, answer) ==
    /\ i \in 1..Len(addCalls)
    /\ addCalls[i].op \in {"onAddAddress", "onUpdateAddress"}
    /\ addCalls[i].state = "pending"
    /\ IF addCalls[i].op = "onAddAddress"
       THEN /\ addresses' = IF answer # <<>>
                            THEN replaceById(addresses, addCalls[i].created.id,
                                     ServerRecord(addCalls[i].created, answer[1]))
                            ELSE addresses
            /\ toast' = "address-added"
       ELSE /\ answer = <<>>
            /\ UNCHANGED addresses
            /\ toast' = "address-updated"
    /\ editingAddress' = Null
    /\ addressDialogOpen' = FALSE
    /\ addCalls' = [addCalls EXCEPT ![i].state = "resolved"]
    /\ UNCHANGED <<profileCallbacks, payments, paymentDialogOpen, catalogVars,
                   authVars, hostVars, checkoutVars>>

\* The promise of the i-th call, made by saveAddress, is rejected: the catch
\* block runs
SaveAddressReject(i) ==
    /\ i \in 1..Len(addCalls)
    /\ addCalls[i].op \in {"onAddAddress", "onUpdateAddress"}
    /\ addCalls[i].state = "pending"
    /\ toast' = "address-error"
    /\ addCalls' = [addCalls EXCEPT ![i].state = "rejected"]
    /\ UNCHANGED <<profileCallbacks, addresses, payments, dialogVars,
                   catalogVars, authVars, hostVars, checkoutVars>>

\* prev.filter((a) => a.id !== id)
RECURSIVE withoutId(_, _)
withoutId(list, id) ==
    IF list = <<>> THEN <<>>
    ELSE (IF Head(list).id # id THEN <<Head(list)>> ELSE <<>>)
         \o withoutId(Tail(list), id)

\* The "Delete" button of an address; without the onDeleteAddress prop the
\* await is over at once
deleteAddress(id) ==
    /\ \E i \in 1..Len(addresses) : addresses[i].id = id
    /\ "onDeleteAddress" \notin profileCallbacks
    /\ addresses' = withoutId(addresses, id)
    /\ toast' = "address-removed"
    /\ UNCHANGED <<profileCallbacks, payments, dialogVars, addCalls, catalogVars,
                   authVars, hostVars, checkoutVars>>

\* The "Remove" button of a payment method; without the onDeletePayment
\* prop the await is over at once
removePayment(id) ==
    /\ \E i \in 1..Len(payments) : payments[i].id = id
    /\ "onDeletePayment" \notin profileCallbacks
    /\ payments' = withoutId(payments, id)
    /\ toast' = "payment-removed"
    /\ UNCHANGED <<profileCallbacks, addresses, dialogVars, addCalls, catalogVars,
                   authVars, hostVars, checkoutVars>>

\* The "Set default" button of a payment method; without the
\* onSetDefaultPayment prop the await is over at once
setDefaultPayment(id) ==
    /\ \E i \in 1..Len(payments) : payments[i].id = id
    /\ "onSetDefaultPayment" \notin profileCallbacks
    /\ payments' = [i \in 1..Len(payments) |->
                       [payments[i] EXCEPT !.isDefault = Flag(payments[i].id = id)]]
    /\ toast' = "payment-default-set"
    /\ UNCHANGED <<profileCallbacks, addresses, dialogVars, addCalls, catalogVars,
                   authVars, hostVars, checkoutVars>>

\* The dialog of the payment methods is opened or closed (onOpenChange),
\* also by its "Cancel" button (resetPaymentDialog)
SetPaymentDialogOpen(open) ==
    /\ paymentDialogOpen' = open
    /\ UNCHANGED <<profileCallbacks, addresses, payments, addressDialogOpen,
                   editingAddress, addCalls, toast, catalogVars, authVars,
                   hostVars, checkoutVars>>

IsDigitChar(c) == c \in {"0","1","2","3","4","5","6","7","8","9"}

\* text.replace(/\s+/g, "")
RECURSIVE removeSpaces(_)
removeSpaces(text) ==
    IF text = <<>> THEN <<>>
    ELSE (IF IsSpace(Head(text)) THEN <<>> ELSE <<Head(text)>>)
         \o removeSpaces(Tail(text))

\* /^\d{12,19}$/.test(number)
validCardNumber(number) ==
    /\ Len(number) \in 12..19
    /\ \A k \in 1..Len(number) : IsDigitChar(number[k])

\* /^\d{2}\/\d{2}$/.test(expiry)
validExpiry(expiry) ==
    /\ Len(expiry) = 5
    /\ \A k \in {1, 2, 4, 5} : IsDigitChar(expiry[k])
    /\ expiry[3] = "/"

\* number.slice(-4)
last4Of(number) == SubSeq(number, Len(number) - 3, Len(number))

\* The payment form is submitted
addPayment(brand, cardName, cardNumber, expiry, isDefault, randomId) ==
    /\ paymentDialogOpen
    /\ LET number == removeSpaces(cardNumber)
           method == [id |-> randomId, brand |-> brand, last4 |-> last4Of(number),
                      expiry |-> expiry, isDefault |-> Flag(isDefault)]
       IN  IF ~Truthy(cardName) \/ ~Truthy(number) \/ ~Truthy(expiry)
           THEN /\ toast' = "payment-required"
                /\ UNCHANGED <<payments, addCalls, paymentDialogOpen>>
           ELSE IF ~validCardNumber(number)
           THEN /\ toast' = "card-number-invalid"
                /\ UNCHANGED <<payments, addCalls, paymentDialogOpen>>
           ELSE IF ~validExpiry(expiry)
           THEN /\ toast' = "expiry-invalid"
                /\ UNCHANGED <<payments, addCalls, paymentDialogOpen>>
           ELSE /\ payments' = insertCreated(payments, method)
                /\ IF "onAddPayment" \in profileCallbacks
                   THEN /\ addCalls' = Append(addCalls,
                               [op |-> "onAddPayment", created |-> method,
                                before |-> payments, state |-> "pending"])
                        /\ toast' = "none"
                        /\ UNCHANGED paymentDialogOpen
                   ELSE /\ toast' = "payment-added"
                        /\ paymentDialogOpen' = FALSE
                        /\ UNCHANGED addCalls
    /\ UNCHANGED <<profileCallbacks, addresses, addressDialogOpen,
                   editingAddress, catalogVars, authVars, hostVars, checkoutVars>>

\* The promise of the i-th call, made by addPayment, is fulfilled
AddPaymentResolve(i, answer) ==
    /\ i \in 1..Len(addCalls)
    /\ addCalls[i].op = "onAddPayment"
    /\ addCalls[i].state = "pending"
    /\ payments' = IF answer # <<>>
                   THEN replaceById(payments, addCalls[i].created.id,
                            ServerRecord(addCalls[i].created, answer[1]))
                   ELSE payments
    /\ toast' = "payment-added"
    /\ paymentDialogOpen' = FALSE
    /\ addCalls' = [addCalls EXCEPT ![i].state = "resolved"]
    /\ UNCHANGED <<profileCallbacks, addresses, addressDialogOpen,
                   editingAddress, catalogVars, authVars, hostVars, checkoutVars>>

\* The promise of the i-th call, made by addPayment, is rejected
AddPaymentReject(i) ==
    /\ i \in 1..Len(addCalls)
    /\ addCalls[i].op = "onAddPayment"
    /\ addCalls[i].state = "pending"
    /\ toast' = "payment-error"
    /\ addCalls' = [addCalls EXCEPT ![i].state = "rejected"]
    /\ UNCHANGED <<profileCallbacks, addresses, payments, dialogVars,
                   catalogVars, authVars, hostVars, checkoutVars>>

\* ------------------------------------------------------------------------
\* Authentication flow (AuthenticationFlow)
\* ------------------------------------------------------------------------
\* showPassword and the remembered-email entry of localStorage take no part
\* in validation or submission and are left out.

\* The state after the first render and its effects
AuthMount(initialMode, given) ==
    /\ authProps = given
    /\ mode = initialMode
    /\ loading = FALSE
    /\ email = <<>>
    /\ password = <<>>
    /\ confirmPassword = <<>>
    /\ errors = {}
    /\ successMsg = "null"
    /\ resetStage = "request"
    /\ verificationCode = <<>>
    /\ newPassword = <<>>
    /\ confirmNewPassword = <<>>
    /\ authCalls = <<>>

\* The effect with dependency [mode]: it runs after a render in which the
\* mode changed and resets the state of the form; given the values the
\* handler has set, it gives the values after the effect
ModeChangeEffect(changed, setErrors, setSuccessMsg, setLoading, setResetStage) ==
    /\ errors' = IF changed THEN {} ELSE setErrors
    /\ successMsg' = IF changed THEN "null" ELSE setSuccessMsg
    /\ loading' = IF changed THEN FALSE ELSE setLoading
    /\ password' = IF changed THEN <<>> ELSE password
    /\ confirmPassword' = IF changed THEN <<>> ELSE confirmPassword
    /\ resetStage' = IF changed THEN "request" ELSE setResetStage
    /\ verificationCode' = IF changed THEN <<>> ELSE verificationCode
    /\ newPassword' = IF changed THEN <<>> ELSE newPassword
    /\ confirmNewPassword' = IF changed THEN <<>> ELSE confirmNewPassword

\* The links "Forgot?", "Sign up", "Sign in" and "Back to sign in"
ModeLinks ==
    CASE mode = "login" -> {"forgot", "signup"}
      [] mode = "signup" -> {"login"}
      [] mode = "forgot" -> {"login"}

setMode(m) ==
    /\ m \in ModeLinks
    /\ mode' = m
    /\ ModeChangeEffect(m # mode, errors, successMsg, loading, resetStage)
    /\ UNCHANGED <<authProps, email, authCalls, toast, catalogVars, profileVars,
                   hostVars, checkoutVars>>

setEmail(text) ==
    /\ email' = text
    /\ UNCHANGED <<authProps, mode, loading, loginFields, errors, successMsg,
                   resetStage, resetFields, authCalls, toast, catalogVars,
                   profileVars, hostVars, checkoutVars>>

setPassword(text) ==
    /\ mode # "forgot"
    /\ password' = text
    /\ UNCHANGED <<authProps, mode, loading, email, confirmPassword, errors,
                   successMsg, resetStage, resetFields, authCalls, toast,
                   catalogVars, profileVars, hostVars, checkoutVars>>

setConfirmPassword(text) ==
    /\ mode = "signup"
    /\ confirmPassword' = text
    /\ UNCHANGED <<authProps, mode, loading, email, password, errors,
                   successMsg, resetStage, resetFields, authCalls, toast,
                   catalogVars, profileVars, hostVars, checkoutVars>>

setVerificationCode(text) ==
    /\ mode = "forgot" /\ resetStage = "verify"
    /\ verificationCode' = text
    /\ UNCHANGED <<authProps, mode, loading, email, loginFields, errors,
                   successMsg, resetStage, newPassword, confirmNewPassword,
                   authCalls, toast, catalogVars, profileVars, hostVars, checkoutVars>>

setNewPassword(text) ==
    /\ mode = "forgot" /\ resetStage = "verify"
    /\ newPassword' = text
    /\ UNCHANGED <<authProps, mode, loading, email, loginFields, errors,
                   successMsg, resetStage, verificationCode, confirmNewPassword,
                   authCalls, toast, catalogVars, profileVars, hostVars, checkoutVars>>

setConfirmNewPassword(text) ==
    /\ mode = "forgot" /\ resetStage = "verify"
    /\ confirmNewPassword' = text
    /\ UNCHANGED <<authProps, mode, loading, email, loginFields, errors,
                   successMsg, resetStage, verificationCode, newPassword,
                   authCalls, toast, catalogVars, profileVars, hostVars, checkoutVars>>

\* Mutant of validateForm: the password length is tested for signup only.
validateFormSignupPassword ==
    (IF ~validateEmail(email) THEN {"email"} ELSE {})
    \cup (IF mode = "signup" /\ Len(password) < 8
          THEN {"password"} ELSE {})
    \cup (IF mode = "signup" /\ confirmPassword # password
          THEN {"confirmPassword"} ELSE {})
    \cup (IF mode = "forgot" /\ resetStage # "request" /\ ~Truthy(trim(verificationCode))
          THEN {"code"} ELSE {})
    \cup (IF mode = "forgot" /\ resetStage # "request" /\ Len(newPassword) < 8
          THEN {"newPassword"} ELSE {})
    \cup (IF mode = "forgot" /\ resetStage # "request" /\ confirmNewPassword # newPassword
          THEN {"confirmNewPassword"} ELSE {})

\* The keys of next in validateForm; the form is valid when there is none
validateForm ==
    (IF ~validateEmail(email) THEN {"email"} ELSE {})
    \cup (IF mode \in {"login", "signup"} /\ Len(password) < 8
          THEN {"password"} ELSE {})
    \cup (IF mode = "signup" /\ confirmPassword # password
          THEN {"confirmPassword"} ELSE {})
    \cup (IF mode = "forgot" /\ resetStage # "request" /\ ~Truthy(trim(verificationCode))
          THEN {"code"} ELSE {})
    \cup (IF mode = "forgot" /\ resetStage # "request" /\ Len(newPassword) < 8
          THEN {"newPassword"} ELSE {})
    \cup (IF mode = "forgot" /\ resetStage # "request" /\ confirmNewPassword # newPassword
          THEN {"confirmNewPassword"} ELSE {})

\* The callback that handleSubmit awaits in the current mode and stage
SubmitCallback ==
    CASE mode = "login" -> "onEmailLogin"
      [] mode = "signup" -> "onEmailSignup"
      [] mode = "forgot" /\ resetStage = "request" -> "onResetRequest"
      [] mode = "forgot" /\ resetStage # "request" -> "onResetConfirm"

\* What the closure of a handler holds while its callback is awaited: the
\* callback and the form as it was rendered
AuthClosure(callback) ==
    [callback |-> callback,
     email |-> email,
     password |-> password,
     confirmPassword |-> confirmPassword,
     code |-> trim(verificationCode),
     newPassword |-> newPassword,
     confirmNewPassword |-> confirmNewPassword]

\* toast.success and setSuccessMsg after the await of a callback
SuccessToastOf(callback) ==
    CASE callback = "onEmailLogin" -> "signed-in"
      [] callback = "onEmailSignup" -> "account-created"
      [] callback = "onResetRequest" -> "code-sent"
      [] callback = "onResetConfirm" -> "password-updated"

SuccessMsgOf(callback) ==
    CASE callback = "onEmailLogin" -> "Signed in successfully"
      [] callback = "onEmailSignup" -> "Account created. You can now sign in."
      [] callback = "onResetRequest" -> "We sent a verification code to your email"
      [] callback = "onResetConfirm" -> "Password updated. You can now sign in."

\* The rest of the try block of handleSubmit after the await, the finally
\* block, and the effect of the render that follows
AfterSubmitAwait(callback, handlerErrors) ==
    LET nextMode == IF callback \in {"onEmailSignup", "onResetConfirm"}
                    THEN "login" ELSE mode
        nextStage == IF callback = "onResetRequest" THEN "verify" ELSE resetStage
    IN  /\ toast' = SuccessToastOf(callback)
        /\ mode' = nextMode
        /\ ModeChangeEffect(nextMode # mode, handlerErrors, SuccessMsgOf(callback),
                            FALSE, nextStage)

\* The form is submitted (the submit button is disabled while loading)
handleSubmit ==
    /\ ~loading
    /\ IF validateForm # {}
       THEN /\ errors' = validateForm
            /\ successMsg' = "null"
            /\ UNCHANGED <<mode, loading, loginFields, resetStage, resetFields,
                           authCalls, toast>>
       ELSE IF SubmitCallback \in authProps
       THEN /\ errors' = {}
            /\ successMsg' = "null"
            /\ loading' = TRUE
            /\ authCalls' = Append(authCalls, AuthClosure(SubmitCallback))
            /\ toast' = "none"
            /\ UNCHANGED <<mode, loginFields, resetStage, resetFields>>
       ELSE /\ AfterSubmitAwait(SubmitCallback, {})
            /\ UNCHANGED authCalls
    /\ UNCHANGED <<authProps, email, catalogVars, profileVars, hostVars, checkoutVars>>

\* authCalls without its i-th entry
authCallsWithout(i) ==
    [k \in 1..(Len(authCalls) - 1) |->
        IF k < i THEN authCalls[k] ELSE authCalls[k + 1]]

\* The promise of the i-th pending callback, awaited by handleSubmit, is
\* fulfilled
SubmitResolve(i) ==
    /\ i \in 1..Len(authCalls)
    /\ authCalls[i].callback # "onSocialLogin"
    /\ AfterSubmitAwait(authCalls[i].callback, errors)
    /\ authCalls' = authCallsWithout(i)
    /\ UNCHANGED <<authProps, email, catalogVars, profileVars, hostVars, checkoutVars>>

\* The promise of the i-th pending callback, awaited by handleSubmit, is
\* rejected: the catch and finally blocks run
SubmitReject(i) ==
    /\ i \in 1..Len(authCalls)
    /\ authCalls[i].callback # "onSocialLogin"
    /\ toast' = "auth-error"
    /\ errors' = errors \cup {"form"}
    /\ loading' = FALSE
    /\ authCalls' = authCallsWithout(i)
    /\ UNCHANGED <<authProps, mode, email, loginFields, successMsg, resetStage,
                   resetFields, catalogVars, profileVars, hostVars, checkoutVars>>

\* One of the "Continue with" buttons (disabled while loading)
SocialLogin ==
    /\ mode # "forgot"
    /\ ~loading
    /\ IF "onSocialLogin" \in authProps
       THEN /\ loading' = TRUE
            /\ authCalls' = Append(authCalls, AuthClosure("onSocialLogin"))
       ELSE UNCHANGED <<loading, authCalls>>
    /\ toast' = "none"
    /\ UNCHANGED <<authProps, mode, email, loginFields, errors, successMsg,
                   resetStage, resetFields, catalogVars, profileVars,
                   hostVars, checkoutVars>>

\* The promise of the i-th pending callback, a social login, settles
SocialLoginSettle(i, fulfilled) ==
    /\ i \in 1..Len(authCalls)
    /\ authCalls[i].callback = "onSocialLogin"
    /\ loading' = FALSE
    /\ toast' = IF fulfilled THEN toast ELSE "social-error"
    /\ authCalls' = authCallsWithout(i)
    /\ UNCHANGED <<authProps, mode, email, loginFields, errors, successMsg,
                   resetStage, resetFields, catalogVars, profileVars,
                   hostVars, checkoutVars>>

\* ------------------------------------------------------------------------
\* Construction
\* ------------------------------------------------------------------------
NewAddress ==
    [id |-> "new", fullName |-> <<>>, line1 |-> <<>>, city |-> <<>>,
     postalCode |-> <<>>, country |-> <<>>, email |-> <<>>, isDefault |-> FALSE]

\* shippingOptions[0]?.id ?? "standard"
InitialShippingId ==
    IF Len(shippingOptions) > 0 THEN shippingOptions[1].id ELSE "standard"

\* paymentMethods[0]?.id ?? "card"
InitialPaymentId ==
    IF Len(paymentMethods) > 0 THEN paymentMethods[1].id ELSE "card"

\* savedAddresses.find((a) => a.isDefault)?.id ?? (savedAddresses[0]?.id || "new")
InitialAddressId(saved) ==
    IF \E i \in 1..Len(saved) : saved[i].isDefault
    THEN saved[CHOOSE i \in 1..Len(saved) :
                 saved[i].isDefault /\ \A k \in 1..(i - 1) : ~saved[k].isDefault].id
    ELSE IF Len(saved) > 0 THEN saved[1].id
    ELSE "new"

\* The state after the first render with the given props and its effects
\* (nothing persisted before)
Mount(initialItems, saved, allowGuest) ==
    /\ savedAddresses = saved
    /\ allowGuestCheckout = allowGuest
    /\ step = "cart"
    /\ cart = initialItems
    /\ couponInput = <<>>
    /\ appliedCoupon = Null
    /\ selectedShipping = (IF Len(shippingOptions) > 0 THEN shippingOptions[1].id ELSE "standard")
    /\ selectedPayment = (IF Len(paymentMethods) > 0 THEN paymentMethods[1].id ELSE "card")
    /\ useSavedAddressId = InitialAddressId(saved)
    /\ guestCheckout = allowGuest
    /\ contactEmail = <<>>
    /\ orderNote = <<>>
    /\ address = NewAddress
    /\ isPlacingOrder = FALSE
    /\ placements = <<>>
    /\ delivered = <<>>
    /\ toast = "none"
    /\ activations = <<>>
    /\ storage = Persisted

\* The values of the first render of an instance
InitialState(initialItems) ==
    [cart             |-> initialItems,
     step             |-> "cart",
     appliedCoupon    |-> Null,
     selectedShipping |-> InitialShippingId,
     selectedPayment  |-> InitialPaymentId,
     guestCheckout    |-> allowGuestCheckout,
     orderNote        |-> <<>>,
     contactEmail     |-> <<>>,
     address          |-> NewAddress]

\* Mutant of LoadPersistedState: savedGuest is used as a truth value.
LoadPersistedStateGuestTruthy(s, init) ==
    LET thrown == s.cart.has /\ JSONparseThrows(s.cart.val)
    IN  [cart |-> IF s.cart.has /\ ~thrown THEN JSONparse(s.cart.val) ELSE init.cart,
         step |-> IF ~thrown /\ s.step.has /\ s.step.val # ""
                     /\ IndexOf(StepOrder, s.step.val) # 0
                  THEN s.step.val ELSE init.step,
         appliedCoupon |->
                  IF ~thrown /\ s.coupon.has /\ Truthy(s.coupon.val)
                     /\ FindCoupon(s.coupon.val) # 0
                  THEN COUPONS[FindCoupon(s.coupon.val)] ELSE init.appliedCoupon,
         selectedShipping |->
                  IF ~thrown /\ s.shipping.has /\ s.shipping.val # ""
                  THEN s.shipping.val ELSE init.selectedShipping,
         selectedPayment |->
                  IF ~thrown /\ s.payment.has /\ s.payment.val # ""
                  THEN s.payment.val ELSE init.selectedPayment,
         guestCheckout |->
                  IF ~thrown /\ s.guest.has /\ s.guest.val # ""
                  THEN TRUE ELSE init.guestCheckout,
         orderNote |->
                  IF ~thrown /\ s.note.has /\ Truthy(s.note.val)
                  THEN s.note.val ELSE init.orderNote,
         contactEmail |->
                  IF ~thrown /\ s.email.has /\ Truthy(s.email.val)
                  THEN s.email.val ELSE init.contactEmail,
         address |->
                  IF ~thrown /\ s.address.has /\ ~JSONparseThrows(s.address.val)
                  THEN JSONparse(s.address.val) ELSE init.address]

\* The load effect of the first render: the state it leaves, given the
\* storage s it reads and the values init of the first render.  All the
\* entries are read first; the set-calls follow in one try block, the cart
\* first and the address last, so a throw of JSON.parse on the cart entry
\* skips every later call and a throw on the address entry skips none.
LoadPersistedState(s, init) ==
    LET thrown == s.cart.has /\ JSONparseThrows(s.cart.val)
    IN  [cart |-> IF s.cart.has /\ ~thrown THEN JSONparse(s.cart.val) ELSE init.cart,
         step |-> IF ~thrown /\ s.step.has /\ s.step.val # ""
                     /\ IndexOf(StepOrder, s.step.val) # 0
                  THEN s.step.val ELSE init.step,
         appliedCoupon |->
                  IF ~thrown /\ s.coupon.has /\ Truthy(s.coupon.val)
                     /\ FindCoupon(s.coupon.val) # 0
                  THEN COUPONS[FindCoupon(s.coupon.val)] ELSE init.appliedCoupon,
         selectedShipping |->
                  IF ~thrown /\ s.shipping.has /\ s.shipping.val # ""
                  THEN s.shipping.val ELSE init.selectedShipping,
         selectedPayment |->
                  IF ~thrown /\ s.payment.has /\ s.payment.val # ""
                  THEN s.payment.val ELSE init.selectedPayment,
         guestCheckout |->
                  IF ~thrown /\ s.guest.has /\ s.guest.val # ""
                  THEN s.guest.val = "true" ELSE init.guestCheckout,
         orderNote |->
                  IF ~thrown /\ s.note.has /\ Truthy(s.note.val)
                  THEN s.note.val ELSE init.orderNote,
         contactEmail |->
                  IF ~thrown /\ s.email.has /\ Truthy(s.email.val)
                  THEN s.email.val ELSE init.contactEmail,
         address |->
                  IF ~thrown /\ s.address.has /\ ~JSONparseThrows(s.address.val)
                  THEN JSONparse(s.address.val) ELSE init.address]

\* The instance is unmounted and a new instance is mounted with the same
\* props while the storage holds s: first render, load effect, persist
\* effects (all of them after the first render, then those whose dependency
\* the load effect changed).  A call of the old instance that is suspended
\* at the await stays pending; its state updates will have no effect.
MountReading(initialItems, s) ==
    LET l == LoadPersistedState(s, InitialState(initialItems))
    IN  /\ cart' = l.cart
        /\ step' = l.step
        /\ appliedCoupon' = l.appliedCoupon
        /\ selectedShipping' = l.selectedShipping
        /\ selectedPayment' = l.selectedPayment
        /\ guestCheckout' = l.guestCheckout
        /\ orderNote' = l.orderNote
        /\ contactEmail' = l.contactEmail
        /\ address' = l.address
        /\ couponInput' = <<>>
        /\ useSavedAddressId' = InitialAddressId(savedAddresses)
        /\ isPlacingOrder' = FALSE
        /\ placements' = [i \in 1..Len(placements) |->
                             [placements[i] EXCEPT !.mounted = FALSE]]
        /\ toast' = "none"
        /\ UNCHANGED <<propVars, delivered, activations>>
        /\ storage' = Persisted'

\* The same below a parent whose state does not change
RemountReading(initialItems, s) ==
    /\ MountReading(initialItems, s)
    /\ UNCHANGED outerVars

\* The keys under which a string can be stored that the load effect cannot
\* use: text that is not JSON, a step that does not exist, a coupon code
\* that is not registered
CorruptibleKeys == {"cart", "address", "step", "coupon"}

CorruptEntry(key) ==
    CASE key = "cart"    -> setItem([ok |-> FALSE, value |-> <<>>])
      [] key = "address" -> setItem([ok |-> FALSE, value |-> NewAddress])
      [] key = "step"    -> setItem("bogus")
      [] key = "coupon"  -> setItem(<<"B","O","G","U","S">>)

\* The storage s after the entry under key was removed ("missing") or
\* overwritten with an unusable string ("corrupt") from outside
Tampered(s, key, variant) ==
    IF variant = "missing"
    THEN [s EXCEPT ![key] = [has |-> FALSE, val |-> s[key].val]]
    ELSE [s EXCEPT ![key] = CorruptEntry(key)]

\* Unmount and mount again, nothing else touching the storage in between
Remount(initialItems) == RemountReading(initialItems, storage)

\* Unmount and mount again after one entry was lost or damaged while no
\* instance was mounted
RemountAfterDamage(initialItems, key, variant) ==
    /\ key \in STORAGE_KEYS
    /\ variant = "corrupt" => key \in CorruptibleKeys
    /\ RemountReading(initialItems, Tampered(storage, key, variant))

\* ------------------------------------------------------------------------
\* Page: the host of the components.  It renders the component of the
\* current view only, so a change of the view unmounts one component and
\* mounts another, which starts from its initial state.
\* ------------------------------------------------------------------------
\* The first render of the page
PageMount ==
    /\ view = "auth"
    /\ loggedIn = FALSE
    /\ pageCart = <<>>
    /\ openedAt = 0

\* The products of the page (name, brand and sku shortened)
PageProducts ==
    << [id |-> "p-001", name |-> <<"T","e","e">>, brand |-> <<"B","r">>,
        sku |-> <<"T","-","1">>, category |-> "apparel", price |-> Cents(2800),
        inStock |-> "true", inventoryCount |-> <<12>>],
       [id |-> "p-002", name |-> <<"T","o","t","e">>, brand |-> <<"B","r">>,
        sku |-> <<"O","-","1">>, category |-> "bags", price |-> Cents(5200),
        inStock |-> "true", inventoryCount |-> <<5>>],
       [id |-> "p-003", name |-> <<"P","a","c","k">>, brand |-> <<"B","r">>,
        sku |-> <<"P","-","2">>, category |-> "bags", price |-> Cents(8950),
        inStock |-> "true", inventoryCount |-> <<3>>],
       [id |-> "p-004", name |-> <<"S","o","c","k">>, brand |-> <<"B","r">>,
        sku |-> <<"S","-","2">>, category |-> "accessories", price |-> Cents(2950),
        inStock |-> "true", inventoryCount |-> <<18>>],
       [id |-> "p-005", name |-> <<"H","o","o","d">>, brand |-> <<"B","r">>,
        sku |-> <<"H","-","1">>, category |-> "apparel", price |-> Cents(8950),
        inStock |-> "true", inventoryCount |-> <<7>>] >>

\* A localStorage nothing has been written to: getItem returns null for
\* every key
NoEntries ==
    [cart     |-> [has |-> FALSE, val |-> JSONstringify(<<>>)],
     step     |-> [has |-> FALSE, val |-> ""],
     coupon   |-> [has |-> FALSE, val |-> <<>>],
     shipping |-> [has |-> FALSE, val |-> ""],
     payment  |-> [has |-> FALSE, val |-> ""],
     guest    |-> [has |-> FALSE, val |-> ""],
     note     |-> [has |-> FALSE, val |-> <<>>],
     email    |-> [has |-> FALSE, val |-> <<>>],
     address  |-> [has |-> FALSE, val |-> JSONstringify(NewAddress)]]

\* The views a button of the header or of the current view leads to
ViewTargets ==
    {"dashboard", "catalog", "cart", "profile"}
        \cup (IF loggedIn THEN {} ELSE {"auth"})

\* The checkout instance, if one is mounted, is unmounted: its pending
\* calls stay pending
unmounted(calls) ==
    [i \in 1..Len(calls) |-> [calls[i] EXCEPT !.mounted = FALSE]]

\* A button that sets the view.  Entering the cart view mounts the checkout
\* with the cart of the page as its initial items; leaving it unmounts the
\* checkout.
setView(v) ==
    /\ v \in ViewTargets
    /\ v # view
    /\ view' = v
    /\ UNCHANGED <<loggedIn, pageCart, catalogVars, profileVars, authVars>>
    /\ IF v = "cart"
       THEN /\ MountReading(pageCart, storage)
            /\ openedAt' = Len(delivered)
       ELSE /\ placements' = unmounted(placements)
            /\ toast' = "none"
            /\ UNCHANGED <<openedAt, propVars, step, cartVars, formVars,
                           selectVars, isPlacingOrder, delivered, activations,
                           storage>>

\* A callback the page passes to the authentication flow is called
\* (onSocialLogin by a social button): the page shows the dashboard.
onSocialLogin ==
    /\ ~loggedIn
    /\ view = "auth"
    /\ mode # "forgot"
    /\ ~loading
    /\ loggedIn' = TRUE
    /\ view' = "dashboard"
    /\ toast' = "none"
    /\ UNCHANGED <<pageCart, openedAt, catalogVars, profileVars, authVars,
                   checkoutVars>>

\* "Sign out" button of the header
SignOut ==
    /\ loggedIn
    /\ loggedIn' = FALSE
    /\ view' = "auth"
    /\ placements' = unmounted(placements)
    /\ toast' = "none"
    /\ UNCHANGED <<pageCart, openedAt, catalogVars, profileVars, authVars,
                   propVars, step, cartVars, formVars, selectVars,
                   isPlacingOrder, delivered, activations, storage>>

\* cartCount: the pieces in the cart of the page
RECURSIVE sumQuantity(_)
sumQuantity(list) ==
    IF list = <<>> THEN 0 ELSE Head(list).quantity + sumQuantity(Tail(list))

cartCount == sumQuantity(pageCart)

\* The updater of setCart in handleAddToCart of the page
addedToCart(prev, p) ==
    IF \E i \in 1..Len(prev) : prev[i].id = p.id
    THEN LET existing == prev[CHOOSE i \in 1..Len(prev) :
                                 /\ prev[i].id = p.id
                                 /\ \A k \in 1..(i - 1) : prev[k].id # p.id]
             nextQty == existing.quantity + 1
             stock == inventoryCountOr(p, existing.stock)
         IN  [i \in 1..Len(prev) |->
                 IF prev[i].id = p.id
                 THEN [prev[i] EXCEPT !.quantity = Min(nextQty, stock)]
                 ELSE prev[i]]
    ELSE Append(prev, [id |-> p.id, price |-> p.price, quantity |-> 1,
                       stock |-> inventoryCountOr(p, 10)])

\* The "Add" button of a product card of the catalog below the page:
\* handleAddToCart of the catalog, which calls handleAddToCart of the page
\* unless it refuses the product; the promise of the call is fulfilled at
\* once.
PageAddToCart(p) ==
    /\ view = "catalog"
    /\ Displayed(p)
    /\ IF addToCartRefused(p)
       THEN /\ toast' = "out-of-stock"
            /\ UNCHANGED pageCart
       ELSE /\ pageCart' = addedToCart(pageCart, p)
            /\ toast' = "added-to-cart"
    /\ UNCHANGED <<view, loggedIn, openedAt, catalogVars, profileVars, authVars,
                   checkoutVars>>

\* The timer of a handlePlaceOrder call fires below the page: the order is
\* built and handed to handleOrderComplete, which shows the dashboard and
\* empties the cart of the page.  The checkout is unmounted by the render
\* that follows, so setStep, setIsPlacingOrder and setCart of the call
\* change nothing and no persist effect runs.
PagePlaceOrderResolve ==
    /\ Len(placements) > 0
    /\ delivered' = Append(delivered, OrderOf(Head(placements)))
    /\ placements' = unmounted(Tail(placements))
    /\ toast' = "order-placed"
    /\ view' = "dashboard"
    /\ pageCart' = <<>>
    /\ UNCHANGED <<loggedIn, openedAt, catalogVars, profileVars, authVars,
                   propVars, step, cartVars, formVars, selectVars,
                   isPlacingOrder, activations, storage>>

\* ------------------------------------------------------------------------
\* Inputs
\* ------------------------------------------------------------------------
\* A saved address handed in by the host
HomeAddress ==
    [id |-> "addr-1", fullName |-> <<"A">>, line1 |-> <<"1">>, city |-> <<"C">>,
     postalCode |-> <<"9">>, country |-> <<"U">>, email |-> <<>>, isDefault |-> TRUE]

\* The cart the host page builds when product p-003 is added once
HostItems ==
    << [id |-> "p-003", price |-> Cents(8950), quantity |-> 1, stock |-> 3] >>

QtyTexts == {<<>>} \cup {<<n>> : n \in (0 - MaxNegQty)..MaxReqQty}

CouponTexts ==
    { <<"N","O","P","E">>,
      <<" ","s","a","v","e","1","0"," ">>,
      <<"W","E","L","C","O","M","E","1","5">>,
      <<"T","A","K","E","5">>,
      <<"F","R","E","E","S","H","I","P">> }

ItemIds == {"sku-1", "sku-2", "p-003"}

ShippingIds == {shippingOptions[i].id : i \in 1..Len(shippingOptions)}
PaymentIds  == {paymentMethods[i].id : i \in 1..Len(paymentMethods)}

\* The catalog and the profile, mounted without props and not used
OthersMounted ==
    /\ CatalogMount(<<>>, {})
    /\ AuthMount("login", {})
    /\ PageMount
    /\ ProfileMount(<<>>, <<>>, {})

\* ------------------------------------------------------------------------
\* Spec: cart, coupon and shipping selection over the first five steps
\* ------------------------------------------------------------------------
Init ==
    /\ \E items \in {DEFAULT_ITEMS, HostItems} : Mount(items, <<HomeAddress>>, FALSE)
    /\ OthersMounted

Next ==
    \/ \E text \in CouponTexts : SetCouponInput(text)
    \/ applyCoupon
    \/ clearCoupon
    \/ \E id \in ItemIds : \E text \in QtyTexts : QtyFieldChange(id, text)
    \/ \E id \in ItemIds : removeItem(id)
    \/ \E id \in ShippingIds : SetSelectedShipping(id)
    \/ Checkout
    \/ ContinueToShipping
    \/ ContinueToPayment
    \/ ReviewOrder
    \/ goBack

Spec == Init /\ [][Next]_vars

\* ------------------------------------------------------------------------
\* OrderSpec: the whole step machine with order placement; the cart, the
\* coupon and the shipping method can be changed while a placement is
\* pending (inputs kept small: one quantity, one coupon text, one method)
\* ------------------------------------------------------------------------
OrderQtyTexts == {<<2>>}

OrderCouponTexts == { <<" ","s","a","v","e","1","0"," ">> }

OrderShippingIds == {"express"}

OrderInit ==
    /\ Mount(DEFAULT_ITEMS, <<HomeAddress>>, FALSE)
    /\ OthersMounted

OrderNext ==
    \/ \E text \in OrderQtyTexts : QtyFieldChange("sku-1", text)
    \/ \E id \in ItemIds : removeItem(id)
    \/ \E text \in OrderCouponTexts : SetCouponInput(text)
    \/ applyCoupon
    \/ clearCoupon
    \/ \E id \in OrderShippingIds : SetSelectedShipping(id)
    \/ Checkout
    \/ ContinueToShipping
    \/ ContinueToPayment
    \/ ReviewOrder
    \/ goBack
    \/ handlePlaceOrder
    \/ PlaceOrderResolve
    \/ ContinueShopping

OrderSpec == OrderInit /\ [][OrderNext]_vars

\* The timer of a pending placement always fires.
FairOrderSpec == OrderSpec /\ WF_vars(PlaceOrderResolve)

\* ------------------------------------------------------------------------
\* DetailsSpec: the details and payment forms and the step guards, for
\* every combination of the savedAddresses and allowGuestCheckout props
\* ------------------------------------------------------------------------
EmailTexts ==
    { <<>>,
      <<"a">>,
      <<"a","@","b",".","c">> }

FieldTexts == { <<>>, <<"x">> }

DetailsPaymentIds == {"cod"}

DetailsInit ==
    /\ \E saved \in {<<>>, <<HomeAddress>>} : \E allowGuest \in BOOLEAN :
          Mount(DEFAULT_ITEMS, saved, allowGuest)
    /\ OthersMounted

DetailsNext ==
    \/ \E checked \in BOOLEAN : SetGuestCheckout(checked)
    \/ \E text \in EmailTexts : SetContactEmail(text)
    \/ \E v \in {"new", HomeAddress.id} : SetUseSavedAddressId(v)
    \/ \E field \in RequiredAddressFields : \E text \in FieldTexts :
          SetAddressField(field, text)
    \/ \E id \in DetailsPaymentIds : SetSelectedPayment(id)
    \/ Checkout
    \/ ContinueToShipping
    \/ ContinueToPayment
    \/ ReviewOrder
    \/ goBack

DetailsSpec == DetailsInit /\ [][DetailsNext]_vars

\* ------------------------------------------------------------------------
\* CatalogSpec: the catalog without callback props: query, category, sort,
\* page size, the two filter switches, the wishlist and the pagination
\* ------------------------------------------------------------------------
\* The products of the host page with short texts, and three more that are
\* out of stock by count, out of stock by flag, and without a count
CatalogProducts ==
    << [id |-> "p-001", name |-> <<"T","e","e">>, brand |-> <<"B","r">>,
        sku |-> <<"T","-","1">>, category |-> "apparel", price |-> Cents(2800),
        inStock |-> "true", inventoryCount |-> <<12>>],
       [id |-> "p-002", name |-> <<"T","o","t","e">>, brand |-> <<"B","r">>,
        sku |-> <<"O","-","1">>, category |-> "bags", price |-> Cents(5200),
        inStock |-> "true", inventoryCount |-> <<5>>],
       [id |-> "p-003", name |-> <<"P","a","c","k">>, brand |-> <<>>,
        sku |-> <<"P","-","2">>, category |-> "bags", price |-> Cents(8950),
        inStock |-> "undefined", inventoryCount |-> <<3>>],
       [id |-> "p-004", name |-> <<"S","o","c","k">>, brand |-> <<"B","r">>,
        sku |-> <<>>, category |-> "accessories", price |-> Cents(2950),
        inStock |-> "true", inventoryCount |-> <<0>>],
       [id |-> "p-005", name |-> <<"H","o","o","d">>, brand |-> <<"B","r">>,
        sku |-> <<"H","-","1">>, category |-> "", price |-> Cents(8950),
        inStock |-> "false", inventoryCount |-> <<7>>],
       [id |-> "p-006", name |-> <<"M","u","g">>, brand |-> <<>>,
        sku |-> <<"t","-","6">>, category |-> "accessories", price |-> Cents(1200),
        inStock |-> "true", inventoryCount |-> <<>>] >>

CatalogQueries == { <<>>, <<" ">>, <<"t">>, <<"B","R">> }

CatalogCategories == {"all", "bags"}

CatalogWishIds == {"p-002", "p-006"}

\* The checkout, mounted with its default props and not used
CheckoutMounted == Mount(DEFAULT_ITEMS, <<>>, TRUE)

\* The lists the parent passes: all products, or the first two only
CatalogProductLists == {CatalogProducts, SubSeq(CatalogProducts, 1, 2)}

CatalogInit ==
    /\ CatalogMount(CatalogProducts, {})
    /\ ProfileMount(<<>>, <<>>, {})
    /\ CheckoutMounted
    /\ AuthMount("login", {})
    /\ PageMount

CatalogNext ==
    \/ \E text \in CatalogQueries : setQuery(text)
    \/ \E c \in CatalogCategories : setActiveCategory(c)
    \/ \E v \in SortOptions : setSort(v)
    \/ \E i \in 1..Len(pageSizeOptions) : setPageSize(pageSizeOptions[i])
    \/ \E v \in BOOLEAN : setOnlyInStock(v)
    \/ \E v \in BOOLEAN : setOnlyWishlist(v)
    \/ ResetFilters
    \/ PrevPage
    \/ NextPage
    \/ \E n \in 1..5 : NumberedPage(n)
    \/ LastPage
    \/ \E i \in 1..Len(products) :
          products[i].id \in CatalogWishIds /\ toggleWishlist(products[i])
    \/ \E prods \in CatalogProductLists : ProductsChange(prods)

CatalogSpec == CatalogInit /\ [][CatalogNext]_vars

\* ------------------------------------------------------------------------
\* CallbackSpec: the catalog with the onToggleWishlist and onAddToCart
\* props; the promises they return settle in any order
\* ------------------------------------------------------------------------
\* At most this many onToggleWishlist calls are made.
MaxToggles == 3

\* At most this many onAddToCart calls are pending.
MaxCartCalls == 1

CallbackProducts ==
    << CatalogProducts[1], CatalogProducts[4], CatalogProducts[6] >>

CallbackInit ==
    /\ CatalogMount(CallbackProducts, {"onToggleWishlist", "onAddToCart"})
    /\ ProfileMount(<<>>, <<>>, {})
    /\ CheckoutMounted
    /\ AuthMount("login", {})
    /\ PageMount

CallbackNext ==
    \/ /\ Len(wishCalls) < MaxToggles
       /\ \E i \in 1..Len(products) : toggleWishlist(products[i])
    \/ \E i \in 1..MaxToggles : WishlistResolve(i)
    \/ \E i \in 1..MaxToggles : WishlistReject(i)
    \/ /\ Len(cartCalls) < MaxCartCalls
       /\ \E i \in 1..Len(products) : handleAddToCart(products[i])
    \/ \E i \in 1..MaxCartCalls : \E fulfilled \in BOOLEAN :
          AddToCartSettle(i, fulfilled)
    \/ \E v \in BOOLEAN : setOnlyInStock(v)
    \/ \E v \in BOOLEAN : setOnlyWishlist(v)

CallbackSpec == CallbackInit /\ [][CallbackNext]_vars

\* ------------------------------------------------------------------------
\* CompareSpec: the compare selection of the catalog over two pages of
\* products
\* ------------------------------------------------------------------------
CompareInit ==
    /\ CatalogMount(CatalogProducts, {})
    /\ ProfileMount(<<>>, <<>>, {})
    /\ CheckoutMounted
    /\ AuthMount("login", {})
    /\ PageMount

CompareNext ==
    \/ \E i \in 1..Len(products) : toggleCompare(products[i])
    \/ ClearCompare
    \/ PrevPage
    \/ NextPage

CompareSpec == CompareInit /\ [][CompareNext]_vars

\* ------------------------------------------------------------------------
\* ProfileSpec: the address book and the payment methods of the profile
\* with the onAddAddress, onUpdateAddress and onAddPayment props; the
\* promises they return settle in any order
\* ------------------------------------------------------------------------
\* At most this many calls of the three props are made.
MaxAddCalls == 1

ProfileLabels == {<<>>, <<"G","y","m">>}
ProfileCardNames == {<<>>, <<"A">>}
ProfileCardNumbers ==
    { <<"4","2","4","2"," ","4","2","4","2"," ","4","2","4","2"," ","1","2","3","4">>,
      <<"4","2","4","2">>,
      <<"4","2","4","2","4","2","4","2","4","2","4","x">> }
ProfileExpiries == {<<"1","2","/","3","0">>, <<"1","/","3","0">>}
ServerAnswers == {<<>>, <<"srv-1">>}

ProfileInit ==
    /\ CatalogMount(<<>>, {})
    /\ CheckoutMounted
    /\ ProfileMount(<<>>, <<>>, {"onAddAddress", "onUpdateAddress", "onAddPayment"})
    /\ AuthMount("login", {})
    /\ PageMount

ProfileNext ==
    \/ \E open \in BOOLEAN : SetAddressDialogOpen(open)
    \/ \E i \in 1..Len(addresses) : openEditAddress(addresses[i])
    \/ resetAddressDialog
    \/ /\ Len(addCalls) < MaxAddCalls
       /\ \E label \in ProfileLabels : \E isDefault \in BOOLEAN :
          \E randomId \in RandomAddressIds :
             saveAddress(label, isDefault, randomId)
    \/ \E i \in 1..MaxAddCalls : \E answer \in ServerAnswers :
          SaveAddressResolve(i, answer)
    \/ \E i \in 1..MaxAddCalls : SaveAddressReject(i)
    \/ \E open \in BOOLEAN : SetPaymentDialogOpen(open)
    \/ /\ Len(addCalls) < MaxAddCalls
       /\ \E cardName \in ProfileCardNames : \E cardNumber \in ProfileCardNumbers :
          \E expiry \in ProfileExpiries : \E isDefault \in BOOLEAN :
          \E randomId \in RandomPaymentIds :
             addPayment("visa", cardName, cardNumber, expiry, isDefault, randomId)
    \/ \E i \in 1..MaxAddCalls : \E answer \in ServerAnswers :
          AddPaymentResolve(i, answer)
    \/ \E i \in 1..MaxAddCalls : AddPaymentReject(i)
    \/ \E i \in 1..Len(addresses) : deleteAddress(addresses[i].id)
    \/ \E i \in 1..Len(payments) : removePayment(payments[i].id)
    \/ \E i \in 1..Len(payments) : setDefaultPayment(payments[i].id)

ProfileSpec == ProfileInit /\ [][ProfileNext]_vars

\* ------------------------------------------------------------------------
\* AuthSpec: the authentication flow with all of its callback props; the
\* promises they return settle in any order
\* ------------------------------------------------------------------------
\* At most this many callbacks are in flight.
MaxAuthCalls == 2

\* The fields start empty: the empty email is not valid and the empty
\* password is too short
AuthEmails == {<<"a", "@", "b", ".", "c">>}
AuthPasswords == {<<"p", "a", "s", "s", "w", "o", "r", "d">>}
AuthCodes == {<<" ">>, <<"1">>}
AuthCallbackProps ==
    {"onEmailLogin", "onEmailSignup", "onResetRequest", "onResetConfirm",
     "onSocialLogin"}

AuthInit ==
    /\ AuthMount("login", AuthCallbackProps)
    /\ PageMount
    /\ CatalogMount(<<>>, {})
    /\ ProfileMount(<<>>, <<>>, {})
    /\ CheckoutMounted

AuthNext ==
    \/ /\ Len(authCalls) < MaxAuthCalls
       /\ handleSubmit
    \/ \E m \in {"login", "signup", "forgot"} : setMode(m)
    \/ \E text \in AuthEmails : setEmail(text)
    \/ \E text \in AuthPasswords : setPassword(text)
    \/ \E text \in AuthPasswords : setConfirmPassword(text)
    \/ \E text \in AuthCodes : setVerificationCode(text)
    \/ \E text \in AuthPasswords : setNewPassword(text)
    \/ \E text \in AuthPasswords : setConfirmNewPassword(text)
    \/ \E i \in 1..MaxAuthCalls : SubmitResolve(i)
    \/ \E i \in 1..MaxAuthCalls : SubmitReject(i)
    \/ /\ Len(authCalls) < MaxAuthCalls
       /\ SocialLogin
    \/ \E i \in 1..MaxAuthCalls : \E fulfilled \in BOOLEAN :
          SocialLoginSettle(i, fulfilled)

AuthSpec == AuthInit /\ [][AuthNext]_vars

\* ------------------------------------------------------------------------
\* PersistSpec: the checkout with its localStorage entries; the component
\* can be unmounted and mounted again at any time, also while a placement
\* is pending, and one entry can be lost or damaged in between
\* ------------------------------------------------------------------------
\* At most this many placements of unmounted instances are pending.
MaxUnmountedPlacements == 1

\* At most this many orders are placed.
MaxPersistOrders == 1

PersistQtyTexts == {<<2>>}

PersistCouponTexts == { <<" ","s","a","v","e","1","0"," ">> }

PersistNoteTexts == { <<"n">> }

PersistEmailTexts == { <<"a","@","b",".","c">> }

PersistInit ==
    /\ Mount(DEFAULT_ITEMS, <<HomeAddress>>, TRUE)
    /\ OthersMounted

\* The fields are edited, and entries are lost or damaged, before the first
\* order is placed.
PersistEdit ==
    \/ \E text \in PersistQtyTexts : QtyFieldChange("sku-1", text)
    \/ \E text \in PersistCouponTexts : SetCouponInput(text)
    \/ applyCoupon
    \/ \E checked \in BOOLEAN : SetGuestCheckout(checked)
    \/ \E text \in PersistEmailTexts : SetContactEmail(text)
    \/ \E text \in PersistNoteTexts : SetOrderNote(text)
    \/ \E v \in {"new", HomeAddress.id} : SetUseSavedAddressId(v)
    \/ SetAddressField("fullName", <<"x">>)
    \/ SetSelectedShipping("express")
    \/ SetSelectedPayment("cod")

PersistNext ==
    \/ /\ Len(placements) <= MaxUnmountedPlacements
       /\ Remount(DEFAULT_ITEMS)
    \/ /\ Len(activations) = 0
       /\ \E key \in STORAGE_KEYS : \E variant \in {"missing", "corrupt"} :
             RemountAfterDamage(DEFAULT_ITEMS, key, variant)
    \/ /\ Len(activations) = 0
       /\ PersistEdit
    \/ Checkout
    \/ ContinueToShipping
    \/ ContinueToPayment
    \/ ReviewOrder
    \/ goBack
    \/ /\ Len(activations) < MaxPersistOrders
       /\ handlePlaceOrder
    \/ PlaceOrderResolve
    \/ PlaceOrderResolveUnmounted
    \/ ContinueShopping

PersistSpec == PersistInit /\ [][PersistNext]_vars

\* ------------------------------------------------------------------------
\* PageSpec: the page with the catalog and the checkout below it.  Products
\* are added in the catalog, the cart view is opened and left, an order is
\* placed and completes.
\* ------------------------------------------------------------------------
\* Products are added while the cart of the page holds fewer pieces.
MaxPageQty == 2

\* At most this many orders are placed.
MaxPageOrders == 1

Views == {"auth", "dashboard", "catalog", "cart", "profile"}

PageAddable == {PageProducts[1], PageProducts[3]}

PageEmailText == <<"a","@","b",".","c">>

PageFieldOrder == <<"fullName", "line1", "city", "postalCode", "country">>

\* No component has been mounted but the authentication flow, and nothing
\* has been stored
PageInit ==
    /\ PageMount
    /\ AuthMount("login", {"onEmailLogin", "onEmailSignup", "onSocialLogin"})
    /\ CatalogMount(PageProducts, {"onAddToCart", "onCompare"})
    /\ ProfileMount(<<>>, <<>>, {})
    /\ savedAddresses = <<>>
    /\ allowGuestCheckout = TRUE
    /\ step = "cart"
    /\ cart = <<>>
    /\ couponInput = <<>>
    /\ appliedCoupon = Null
    /\ selectedShipping = InitialShippingId
    /\ selectedPayment = InitialPaymentId
    /\ useSavedAddressId = "new"
    /\ guestCheckout = TRUE
    /\ contactEmail = <<>>
    /\ orderNote = <<>>
    /\ address = NewAddress
    /\ isPlacingOrder = FALSE
    /\ placements = <<>>
    /\ delivered = <<>>
    /\ toast = "none"
    /\ activations = <<>>
    /\ storage = NoEntries

\* The details form is filled in from top to bottom.
PageDetails ==
    \/ /\ contactEmail = <<>>
       /\ SetContactEmail(PageEmailText)
    \/ \E i \in 1..Len(PageFieldOrder) :
          /\ contactEmail # <<>>
          /\ \A k \in 1..(i - 1) : address[PageFieldOrder[k]] # <<>>
          /\ address[PageFieldOrder[i]] = <<>>
          /\ SetAddressField(PageFieldOrder[i], <<"x">>)

PageNext ==
    \/ \E v \in Views : setView(v)
    \/ onSocialLogin
    \/ SignOut
    \/ /\ cartCount < MaxPageQty
       /\ \E p \in PageAddable : PageAddToCart(p)
    \/ /\ view = "cart"
       /\ \/ PageDetails
          \/ Checkout
          \/ ContinueToShipping
          \/ ContinueToPayment
          \/ ReviewOrder
          \/ goBack
          \/ /\ Len(activations) < MaxPageOrders
             /\ handlePlaceOrder
    \/ PagePlaceOrderResolve

PageSpec == PageInit /\ [][PageNext]_vars

\* ========================================================================
\* Properties
\* ========================================================================
StepIndex(s) == IndexOf(StepOrder, s)

\* C1: in every reachable state every cart line item has
\* 1 <= quantity <= stock, whatever quantity edits, removals and coupon
\* actions led there.
C1_QuantityWithinStock ==
    \A i \in 1..Len(cart) :
        1 <= cart[i].quantity /\ cart[i].quantity <= cart[i].stock

\* C2: every change of the step moves exactly one position forward or one
\* position backward in the step order, the only exception being
\* success -> cart, also while an order placement is pending.
C2_StepMovesOnePosition ==
    [][step' # step =>
          \/ StepIndex(step') = StepIndex(step) + 1
          \/ StepIndex(step') = StepIndex(step) - 1
          \/ (step = "success" /\ step' = "cart")]_vars

\* C3: while an order placement is pending the placing flag is set and no
\* second placement is started, so at most one placement is in flight.
C3_OnePlacementInFlight ==
    /\ Len(placements) <= 1
    /\ (Len(placements) = 1 <=> isPlacingOrder)

\* C3 witness: a placement is pending and the user is on the review step
\* again after having gone back to the shipping step and changed the method.
C3_Witness ==
    /\ isPlacingOrder
    /\ Len(placements) = 1
    /\ step = "review"
    /\ selectedShipping # placements[1].selectedShippingMethod.id

C4_Resolved ==
    /\ Len(placements) = 0
    /\ Len(delivered) = Len(activations)
    /\ ~isPlacingOrder
    /\ cart = <<>>
    /\ step = "success"

\* C4: an activated placement cannot be cancelled: whatever the user does
\* during the delay it eventually resolves, with onOrderComplete invoked
\* exactly once per activation, the placing flag cleared, the cart empty and
\* the step equal to success.
C4_PlacementResolves ==
    /\ [](Len(placements) + Len(delivered) = Len(activations))
    /\ ((Len(placements) > 0) ~> C4_Resolved)

\* C4 witness: the order was delivered although the user had gone back and
\* changed the shipping method and the coupon during the delay.
C4_Witness ==
    /\ C4_Resolved
    /\ Len(delivered) = 1
    /\ selectedShipping # delivered[1].shippingMethod.id
    /\ appliedCoupon.code # delivered[1].coupon

\* ------------------------------------------------------------------------
\* Reference derivation of the amounts, written from the pricing rules
\* ------------------------------------------------------------------------
RECURSIVE RefSubtotal(_)
RefSubtotal(items) ==
    IF items = <<>> THEN 0
    ELSE Head(items).price * Head(items).quantity + RefSubtotal(Tail(items))

RefDiscount(coupon, sub) ==
    CASE coupon.type = "percent" -> (sub * coupon.value) \div 100
      [] coupon.type = "fixed"   -> IF coupon.value <= sub THEN coupon.value ELSE sub
      [] OTHER                   -> 0

RefShippingCost(coupon, shippingId) ==
    IF coupon.type = "shipping" THEN 0
    ELSE (CHOOSE m \in {DEFAULT_SHIPPING[i] : i \in 1..Len(DEFAULT_SHIPPING)} :
              m.id = shippingId).cost

\* num/den rounded to whole cents, halves up (num >= 0)
RefRound2(num, den) ==
    LET cents == num \div (100 * den)
        rest  == num - cents * 100 * den
    IN IF 2 * rest >= 100 * den THEN (cents + 1) * 100 ELSE cents * 100

RefTaxable(coupon, sub) ==
    IF sub - RefDiscount(coupon, sub) > 0 THEN sub - RefDiscount(coupon, sub) ELSE 0

RefTax(coupon, sub) == RefRound2(RefTaxable(coupon, sub) * 29, 400)

RefTotal(coupon, sub, shippingId) ==
    RefRound2(RefTaxable(coupon, sub) + RefTax(coupon, sub)
              + RefShippingCost(coupon, shippingId), 1)

\* C5: the order passed to onOrderComplete carries the items, coupon code,
\* subtotal, discount, shipping, tax and total that were current when place
\* order was activated, even when cart, coupon or shipping selection were
\* changed during the delay.
C5_OrderIsSnapshotOfActivation ==
    \A k \in 1..Len(delivered) :
        LET o == delivered[k]
            a == activations[k]
            sub == RefSubtotal(a.cart)
        IN /\ o.items = a.cart
           /\ o.coupon = a.appliedCoupon.code
           /\ o.subtotal = sub
           /\ o.discount = RefDiscount(a.appliedCoupon, sub)
           /\ o.shipping = RefShippingCost(a.appliedCoupon, a.selectedShipping)
           /\ o.tax = RefTax(a.appliedCoupon, sub)
           /\ o.total = RefTotal(a.appliedCoupon, sub, a.selectedShipping)

\* C5 witness: an order was delivered after the coupon and the shipping
\* method had both been changed during the delay.
C5_Witness ==
    /\ Len(delivered) = 1
    /\ appliedCoupon # activations[1].appliedCoupon
    /\ selectedShipping # activations[1].selectedShipping
    /\ delivered[1].items = DEFAULT_ITEMS

\* C6: the step advances from details to shipping only if (a) guest
\* checkout is off or the contact email is syntactically valid, and (b) a
\* saved address is selected or full name, line 1, city, postal code and
\* country of the new address are all non-empty.
C6_DetailsGuard ==
    [][(step = "details" /\ step' = "shipping") =>
          /\ (~guestCheckout \/ validateEmail(contactEmail))
          /\ \/ (useSavedAddressId # "new"
                 /\ \E i \in 1..Len(savedAddresses) :
                        savedAddresses[i].id = useSavedAddressId)
             \/ \A f \in RequiredAddressFields : address[f] # <<>>]_vars

IsRegistered(code) == \E i \in 1..Len(COUPONS) : COUPONS[i].code = code

OtherThanCouponUnchanged ==
    UNCHANGED <<propVars, step, cart, couponInput, formVars, selectVars, orderVars>>

\* C7: applying a coupon code that is not in the registry leaves the
\* applied coupon and every other checkout variable unchanged and signals a
\* rejection; applying a registered code makes it the single applied
\* coupon, replacing any coupon applied before.
C7_UnknownCodeRejected ==
    [][applyCoupon =>
          LET code == toUpperCase(trim(couponInput)) IN
          /\ ~IsRegistered(code) =>
                /\ UNCHANGED appliedCoupon
                /\ OtherThanCouponUnchanged
                /\ toast' = "coupon-error"
          /\ IsRegistered(code) =>
                /\ appliedCoupon'.code = code
                /\ OtherThanCouponUnchanged]_vars

\* C7 (amended): applying a non-blank code that is not in the registry
\* (after trimming and upper-casing) leaves the applied coupon and every
\* other checkout variable unchanged and signals a rejection; a blank code
\* is ignored without a notice; applying a registered code makes it the
\* single applied coupon, replacing any coupon applied before.
C7_NonBlankUnknownCodeRejected ==
    [][applyCoupon =>
          LET code == toUpperCase(trim(couponInput)) IN
          /\ (code # <<>> /\ ~IsRegistered(code)) =>
                /\ UNCHANGED appliedCoupon
                /\ OtherThanCouponUnchanged
                /\ toast' = "coupon-error"
          /\ code = <<>> =>
                /\ UNCHANGED appliedCoupon
                /\ OtherThanCouponUnchanged
                /\ toast' = "none"
          /\ IsRegistered(code) =>
                /\ appliedCoupon' \in {COUPONS[i] : i \in 1..Len(COUPONS)}
                /\ appliedCoupon'.code = code
                /\ OtherThanCouponUnchanged
                /\ toast' = "coupon-applied"]_vars

\* C7 witness: an unknown code was rejected while a coupon was applied,
\* which is still applied.
C7_Witness ==
    /\ toast = "coupon-error"
    /\ couponInput = <<"N","O","P","E">>
    /\ appliedCoupon # Null

\* C8: in every reachable state, for every coupon of the registry,
\* discount <= subtotal.
C8_DiscountAtMostSubtotal ==
    \A i \in 1..Len(COUPONS) : discountFor(COUPONS[i], subtotal) <= subtotal

\* total as the claim C9 states it
C9_ClaimedTotal ==
    toFixed2(taxedSubtotal * (taxRateDen + taxRateNum), taxRateDen) + shippingCost

SAVE10 == COUPONS[1]
FREESHIP == COUPONS[4]

C11_QuantityUpdate ==
    [][\A id \in ItemIds : \A q \in 1..MaxReqQty :
          (FindById(cart, id) # 0 /\ QtyFieldChange(id, <<q>>)) =>
              LET i == FindById(cart, id) IN
              /\ Len(cart') = Len(cart)
              /\ \A k \in 1..Len(cart) : k # i => cart'[k] = cart[k]
              /\ q > cart[i].stock =>
                    /\ cart'[i] = cart[i]
                    /\ toast' = "stock-error"
              /\ q <= cart[i].stock =>
                    /\ cart'[i] = [cart[i] EXCEPT !.quantity = q]
                    /\ toast' # "stock-error"]_vars

\* C11 witness: a request above the stock was rejected for an item whose
\* quantity had before been raised to exactly its stock.
C11_Witness ==
    /\ toast = "stock-error"
    /\ \E i \in 1..Len(cart) : cart[i].quantity = cart[i].stock

\* C14: when an order has completed (the step is success), the applied
\* coupon, the address draft and the shipping and payment selections are
\* back at their initial values.
C14_SessionResetOnCompletion ==
    step = "success" =>
        /\ appliedCoupon = Null
        /\ address = NewAddress
        /\ selectedShipping = InitialShippingId
        /\ selectedPayment = InitialPaymentId

\* C15: from step success the only possible step change is to cart, and
\* the cart is empty whenever the step is success and at the moment the
\* step returns from success to cart.
C15_SuccessLeadsOnlyToEmptyCart ==
    /\ [](step = "success" => cart = <<>>)
    /\ [][(step = "success" /\ step' # "success") =>
              (step' = "cart" /\ cart = <<>> /\ cart' = <<>>)]_vars

\* C15 witness: the step is cart again after an order was delivered, and
\* the cart is empty.
C15_Witness ==
    /\ step = "cart"
    /\ Len(delivered) > 0
    /\ cart = <<>>

PersistedFields ==
    [cart     |-> cart,
     step     |-> step,
     coupon   |-> appliedCoupon,
     shipping |-> selectedShipping,
     payment  |-> selectedPayment,
     guest    |-> guestCheckout,
     note     |-> orderNote,
     email    |-> contactEmail,
     address  |-> address]

\* Their defaults
DefaultFields ==
    [cart     |-> DEFAULT_ITEMS,
     step     |-> "cart",
     coupon   |-> Null,
     shipping |-> InitialShippingId,
     payment  |-> InitialPaymentId,
     guest    |-> allowGuestCheckout,
     note     |-> <<>>,
     email    |-> <<>>,
     address  |-> NewAddress]

\* C17: when the component is mounted while one persisted entry is missing
\* or corrupt, only the field of that entry falls back to its default and
\* the fields of all other keys are rehydrated from their valid entries,
\* whichever key holds the damaged entry.
C17_OnlyDamagedFieldFallsBack ==
    [][\A key \in STORAGE_KEYS : \A variant \in {"missing", "corrupt"} :
          RemountAfterDamage(DEFAULT_ITEMS, key, variant) =>
              /\ PersistedFields'[key] = DefaultFields[key]
              /\ \A other \in STORAGE_KEYS \ {key} :
                    PersistedFields'[other] = PersistedFields[other]]_vars

\* ------------------------------------------------------------------------
\* Catalog
\* ------------------------------------------------------------------------
\* A product counts as available when inStock is not false and its
\* inventory count is greater than 0.
claimedAvailable(p) ==
    /\ p.inStock # "false"
    /\ p.inventoryCount # <<>>
    /\ p.inventoryCount[1] > 0

Listed(p) == \E i \in 1..Len(computedList) : computedList[i] = p

\* C18: the stock gates of the catalog agree on every product: add to cart
\* refuses a product, and the card shows the out-of-stock badge, exactly
\* when the product is not available, and with the in-stock-only filter
\* switched on only available products are listed; this includes products
\* without an inventory count.
C18_StockGatesAgree ==
    \A i \in 1..Len(products) :
        LET p == products[i]
        IN  /\ addToCartRefused(p) <=> ~claimedAvailable(p)
            /\ outOfStockBadge(p) <=> ~claimedAvailable(p)
            /\ (onlyInStock /\ Listed(p)) => claimedAvailable(p)

\* The onToggleWishlist calls made for a product, by their place in the log
TogglesOf(id) == {i \in 1..Len(wishCalls) : wishCalls[i].id = id}

TogglesSettled(id) == \A i \in TogglesOf(id) : wishCalls[i].state # "pending"

ResolvedTogglesOf(id) == {i \in TogglesOf(id) : wishCalls[i].state = "resolved"}

\* The membership that the resolved toggles alone leave: that of the last
\* resolved toggle, or the original one (no product is in the wishlist at
\* mount) when every toggle was rejected
MembershipByResolved(id) ==
    IF ResolvedTogglesOf(id) = {} THEN FALSE
    ELSE LET last == CHOOSE i \in ResolvedTogglesOf(id) :
                        \A j \in ResolvedTogglesOf(id) : j <= i
         IN  wishCalls[last].next

\* C12: once every pending onToggleWishlist call for a product has settled,
\* its wishlist membership reflects only the toggles whose calls resolved,
\* and equals the original membership if all were rejected, in whatever
\* order overlapping toggles on the product complete.
C12_WishlistRollback ==
    \A i \in 1..Len(products) :
        LET id == products[i].id
        IN  TogglesSettled(id) =>
                ((id \in wishlist) <=> MembershipByResolved(id))

\* C13: if onAddAddress (onAddPayment) rejects, the optimistically inserted
\* address (payment method) is rolled back: when the list is still the one
\* the insert produced, after the rejection it equals, default flags
\* included, the list before the add.
C13_AddRollbackOnReject ==
    [][\A i \in 1..Len(addCalls) :
          /\ ( /\ SaveAddressReject(i)
               /\ addCalls[i].op = "onAddAddress"
               /\ addresses = insertCreated(addCalls[i].before, addCalls[i].created) )
             => addresses' = addCalls[i].before
          /\ ( /\ AddPaymentReject(i)
               /\ payments = insertCreated(addCalls[i].before, addCalls[i].created) )
             => payments' = addCalls[i].before]_vars

\* The filters as the catalog documents them
RefQueryActive == \E k \in 1..Len(query) : ~IsSpace(query[k])

RefContains(text, q) ==
    \E a \in 1..(Len(text) + 1) :
        /\ a + Len(q) - 1 <= Len(text)
        /\ \A k \in 1..Len(q) :
              toLowerCaseChar(text[a + k - 1]) = toLowerCaseChar(q[k])

RefSatisfies(p) ==
    /\ RefQueryActive =>
          \/ RefContains(p.name, query)
          \/ RefContains(p.brand, query) /\ p.brand # <<>>
          \/ RefContains(p.sku, query) /\ p.sku # <<>>
    /\ activeCategory # "all" => p.category = activeCategory
    /\ onlyInStock =>
          /\ p.inStock # "false"
          /\ (p.inventoryCount # <<>> => p.inventoryCount[1] > 0)
    /\ onlyWishlist => p.id \in wishlist

RefIndices == {i \in 1..Len(products) : RefSatisfies(products[i])}

\* The satisfying products in their input order
RefInOrder ==
    [k \in 1..Cardinality(RefIndices) |->
        products[CHOOSE i \in RefIndices :
                    Cardinality({j \in RefIndices : j < i}) = k - 1]]

\* The items of the pages 1..n, one page after the other
RECURSIVE PagesUpTo(_)
PagesUpTo(n) ==
    IF n = 0 THEN <<>> ELSE PagesUpTo(n - 1) \o computedAt(n).items

AllPages == PagesUpTo(computed.totalPages)

\* C19: for every filter setting, total and the concatenation of all pages
\* are exactly the products that satisfy every active filter (query match
\* on name, brand or SKU; category; in-stock only; wishlist only), and with
\* sort relevance they appear in their input order.
C19_PagesAreTheFilteredProducts ==
    /\ computed.total = Cardinality(RefIndices)
    /\ Len(AllPages) = computed.total
    /\ {AllPages[k] : k \in 1..Len(AllPages)} = {products[i] : i \in RefIndices}
    /\ sort = "relevance" => AllPages = RefInOrder

\* C19 witness: a query that matches by name and by SKU, combined with the
\* in-stock filter, gives three products on three pages.
C19_Witness ==
    /\ query = <<"t">>
    /\ onlyInStock
    /\ sort = "relevance"
    /\ computed.total = 3
    /\ computed.totalPages = 3
    /\ page = 2

\* C20: changing pageSize, sort, category, query, onlyInStock or
\* onlyWishlist resets the remembered page to 1, from any page and whatever
\* page navigation preceded the change.
C20_FilterChangeResetsPage ==
    [][filterVars' # filterVars => page' = 1]_vars

\* C20 witness: the page is 1 with one product per page although the query
\* leaves several pages.
C20_Witness ==
    /\ page = 1
    /\ pageSize = 1
    /\ query = <<"t">>
    /\ computed.totalPages > 1

\* The page count the catalog documents: the least n >= 1 with n pages of
\* pageSize products holding every filtered product
RefTotalPages ==
    CHOOSE n \in 1..(Len(products) + 1) :
        /\ n * pageSize >= Cardinality(RefIndices)
        /\ n = 1 \/ (n - 1) * pageSize < Cardinality(RefIndices)

\* C21: totalPages = max(1, ceil(total / pageSize)) and the displayed
\* current page is the remembered page clamped down to totalPages, so
\* 1 <= currentPage <= totalPages and currentPage never exceeds the
\* remembered page, also after the wishlist or the product list shrinks the
\* result set.
C21_CurrentPageIsClampedPage ==
    /\ computed.totalPages = RefTotalPages
    /\ computed.currentPage = IF page > RefTotalPages THEN RefTotalPages ELSE page
    /\ 1 <= computed.currentPage
    /\ computed.currentPage <= computed.totalPages
    /\ computed.currentPage <= page

\* C21 witness: the remembered page lies beyond the last page.
C21_Witness ==
    /\ page > computed.totalPages
    /\ computed.totalPages > 1

\* C22: the visible page holds at most pageSize items, and exactly total
\* items whenever total <= pageSize.
C22_PageHoldsAtMostPageSize ==
    /\ Len(computed.items) <= pageSize
    /\ Cardinality(RefIndices) <= pageSize =>
          Len(computed.items) = Cardinality(RefIndices)

\* C22 witness: the filtered products fit one page while the remembered
\* page is a later one.
C22_Witness ==
    /\ Cardinality(RefIndices) <= pageSize
    /\ Cardinality(RefIndices) > 0
    /\ page > 1

\* C23: the compare set has at most 4 members; a toggle-on attempted when 4
\* are already selected leaves the set unchanged, while toggling a member
\* off always removes it.
C23_CompareAtMostFour ==
    /\ [](Cardinality(compareIds) <= 4)
    /\ [][\A i \in 1..Len(products) :
            LET id == products[i].id
            IN  /\ ( /\ toggleCompare(products[i])
                     /\ Cardinality(compareIds) = 4
                     /\ id \notin compareIds ) => compareIds' = compareIds
                /\ ( /\ toggleCompare(products[i])
                     /\ id \in compareIds ) => compareIds' = compareIds \ {id}]_vars

\* C23 witness: four products are selected and a fifth was refused.
C23_Witness ==
    /\ Cardinality(compareIds) = 4
    /\ toast = "compare-limit"

\* ------------------------------------------------------------------------
\* Checkout, continued
\* ------------------------------------------------------------------------
\* C25: whenever the checkout step is details, shipping, payment or review,
\* the cart holds at least one line item.
C25_CartNonEmptyPastCartStep ==
    step \in {"details", "shipping", "payment", "review"} => cart # <<>>

\* C25 as amended: the cart can become empty on the details, shipping,
\* payment and review steps, but the step from cart to details and the
\* start of a placement need at least one line item, and every placed order
\* holds at least one line item.
C25_OrderNeedsNonEmptyCart ==
    /\ [](\A k \in 1..Len(delivered) : delivered[k].items # <<>>)
    /\ [][/\ (step = "cart" /\ step' = "details") => cart # <<>>
          /\ Len(activations') > Len(activations) => cart # <<>>]_vars

\* C25 witness: the line items were removed on the review step while a
\* placement, started with a line item in the cart, is pending.
C25_Witness ==
    /\ step = "review"
    /\ cart = <<>>
    /\ Len(placements) > 0
    /\ Head(placements).cart # <<>>

\* ------------------------------------------------------------------------
\* User profile
\* ------------------------------------------------------------------------
DefaultCount(list) == Cardinality({i \in 1..Len(list) : list[i].isDefault = "true"})

\* C30: after any sequence of address add, edit and delete operations, at
\* most one address is flagged as default; likewise at most one payment
\* method is default after any sequence of add, set-default and remove.
C30_AtMostOneDefault ==
    /\ DefaultCount(addresses) <= 1
    /\ DefaultCount(payments) <= 1

\* ------------------------------------------------------------------------
\* Authentication flow
\* ------------------------------------------------------------------------
\* A valid email, read off the text: no white space, exactly one "@" with
\* text before it, and after it a "." with text on both sides
RefEmailOk(text) ==
    /\ \A k \in 1..Len(text) : ~IsSpace(text[k])
    /\ Cardinality({k \in 1..Len(text) : text[k] = "@"}) = 1
    /\ LET at == CHOOSE k \in 1..Len(text) : text[k] = "@"
       IN  /\ at > 1
           /\ \E d \in (at + 2)..(Len(text) - 1) : text[d] = "."

\* What the form must satisfy before the callback may be invoked
RefFormOk(c) ==
    /\ RefEmailOk(c.email)
    /\ c.callback \in {"onEmailLogin", "onEmailSignup"} => Len(c.password) >= 8
    /\ c.callback = "onEmailSignup" => c.confirmPassword = c.password
    /\ c.callback = "onResetConfirm" =>
          /\ c.code # <<>>
          /\ Len(c.newPassword) >= 8
          /\ c.confirmNewPassword = c.newPassword

ValidatedCallbacks ==
    {"onEmailLogin", "onEmailSignup", "onResetRequest", "onResetConfirm"}

\* C24: no external callback (onEmailLogin, onEmailSignup, onResetRequest,
\* onResetConfirm) is invoked unless the form passes validation for the
\* current mode: valid email always; password of at least 8 characters for
\* login and signup; matching confirmation for signup; non-empty code, new
\* password of at least 8 characters and matching confirmation for reset
\* verification.
C24_CallbacksOnlyAfterValidation ==
    \A i \in 1..Len(authCalls) :
        authCalls[i].callback \in ValidatedCallbacks => RefFormOk(authCalls[i])

\* C24 witness: a reset confirmation is in flight.
C24_Witness ==
    \E i \in 1..Len(authCalls) : authCalls[i].callback = "onResetConfirm"

\* C28: at most one external callback is in flight at any time.
C28_OneCallbackInFlight == Len(authCalls) <= 1

\* C29: after a successful signup or password-reset confirmation the flow
\* is in login mode with the corresponding success message still set after
\* the mode-change reset has run; after a rejected callback the mode and
\* the reset stage are unchanged.
C29_SuccessSettlesInLogin ==
    [][\A i \in 1..Len(authCalls) :
          /\ ( /\ SubmitResolve(i)
               /\ authCalls[i].callback \in {"onEmailSignup", "onResetConfirm"} )
             => /\ mode' = "login"
                /\ successMsg' = SuccessMsgOf(authCalls[i].callback)
          /\ SubmitReject(i) => (mode' = mode /\ resetStage' = resetStage)]_vars

\* C26: in the page, the first time the cart view is opened after an order
\* has completed (nothing having been added in between) the checkout is at
\* step cart and has no line items.
C26_CartViewFreshAfterOrder ==
    [][( /\ view # "cart"
         /\ view' = "cart"
         /\ openedAt < Len(delivered)
         /\ pageCart = <<>> )
       => (step' = "cart" /\ cart' = <<>>)]_vars

\* C27: in the page, when the cart view is opened every product the
\* catalog's add to cart has accepted (the cart of the page holds them) is a
\* line item of the checkout cart.
C27_AcceptedProductsAreLineItems ==
    [][(view # "cart" /\ view' = "cart")
       => \A i \in 1..Len(pageCart) :
             \E k \in 1..Len(cart') : cart'[k].id = pageCart[i].id]_vars

====
